---- MODULE Spec2Model ----
(***************************************************************************)
(* A model of the ChatGPT conversation parser: the selector resolver       *)
(* (selectors.ts), the content-part extractor (normalize.ts), the stable   *)
(* id generator (stableIds.ts) and the orchestrator (parseChatGpt.ts).     *)
(*                                                                         *)
(* The markup tree is a sequence of element records in document order      *)
(* (preorder); element i's parent is dom[i].parent, and 0 stands for the   *)
(* Document node.  An element's own text is the text that precedes its     *)
(* first child element.  Text is a sequence of one-character strings.      *)
(***************************************************************************)
EXTENDS Integers, Sequences, FiniteSets, TLC

VARIABLES
  dom,        \* the markup tree handed to the parser (never written by it)
  url,        \* document.location.href
  op,         \* resolver calls: the function last called, "none" before any
  cfg,        \* resolver calls: the SelectorConfig of the last call
  root,       \* resolver calls: the root the last call searched under
  found,      \* result of the last findElement call
  foundAll,   \* result of the last findElements call
  options,    \* parseChatGpt: the ParserOptions of the calls
  now,        \* the clock new Date() reads
  pc,         \* parseChatGpt: position of the current call
  container,  \* parseChatGpt: const container
  messageElements, \* parseChatGpt: const messageElements
  idx,      \* parseChatGpt: the forEach index of the next element
  messages,   \* parseChatGpt: const messages
  sources,    \* history: the element each message of messages was made from
  warnings,   \* parseChatGpt: const warnings
  outcome,    \* what the last finished call handed to its caller
  previous,   \* what the call before it handed to its caller
  calls,      \* number of parseChatGpt calls started
  input,      \* function calls: the arguments of the calls made, in order
  output,     \* function calls: what each of these calls returned
  startTime   \* waitForConversationReady: const startTime

findVars == <<op, cfg, root, found, foundAll>>
parseVars == <<options, now, pc, container, messageElements, idx, messages,
               sources, warnings, outcome, previous, calls>>
callVars == <<input, output, startTime>>
vars == <<dom, url, findVars, parseVars, callVars>>

(***************************************************************************)
(* Elements                                                                *)
(***************************************************************************)
NoAttrs == [a \in {} |-> ""]

\* An element: parent index, tag name (lower case), class list, attributes,
\* own leading text, clientHeight.
El(p, t, c, a, x, h) ==
  [parent |-> p, tag |-> t, cls |-> c, attrs |-> a, text |-> x, height |-> h]

DocumentNode == 0
NULL == 0

hasAttribute(d, n, a) == a \in DOMAIN d[n].attrs
getAttribute(d, n, a) == d[n].attrs[a]

\* Substrings (among those the parser probes for) of each class token and
\* attribute value that occurs in the trees of the model.
Substrings ==
  [s \in {"message", "message-assistant", "user-turn", "group", "small", "large",
          "conversation", "conversation-container", "conversation-turn-1",
          "toolbar", "language-python", "quote", "system-message", "bot",
          "markdown", "prose"} |->
     CASE s = "message"                -> {"message"}
       [] s = "message-assistant"      -> {"message", "assistant"}
       [] s = "user-turn"              -> {"user"}
       [] s = "group"                  -> {"group"}
       [] s = "conversation"           -> {"conversation"}
       [] s = "conversation-container" -> {"conversation"}
       [] s = "conversation-turn-1"    -> {"conversation", "conversation-turn"}
       [] s = "toolbar"                -> {"toolbar"}
       [] s = "language-python"        -> {"language-", "language"}
       [] s = "quote"                  -> {"quote"}
       [] s = "system-message"         -> {"system", "message"}
       [] s = "bot"                    -> {"bot"}
       [] s = "prose"                  -> {"prose"}
       [] OTHER                        -> {}]

\* String.prototype.includes / the CSS [attr*="sub"] test on one value
includes(s, sub) == s = sub \/ (s \in DOMAIN Substrings /\ sub \in Substrings[s])

\* the class attribute contains sub ([class*="sub"], className.includes(sub))
classIncludes(d, n, sub) == \E i \in 1..Len(d[n].cls) : includes(d[n].cls[i], sub)

\* n is a proper descendant of r (every element descends from the Document)
RECURSIVE isDescendant(_, _, _)
isDescendant(d, n, r) ==
  IF n = DocumentNode THEN FALSE
  ELSE IF d[n].parent = r THEN TRUE
  ELSE isDescendant(d, d[n].parent, r)

children(d, n) == {k \in 1..Len(d) : d[k].parent = n}

(***************************************************************************)
(* CSS selectors.  A selector list is a sequence of complex selectors; a   *)
(* complex selector is a sequence of steps, each a combinator (">" child,  *)
(* " " descendant, "" for the first step) and a compound selector; a       *)
(* compound selector is a tag ("*" for any) and a set of conditions.       *)
(***************************************************************************)
HasAttr(a)        == [k |-> "has", a |-> a, v |-> ""]
AttrEq(a, v)      == [k |-> "eq", a |-> a, v |-> v]
AttrContains(a, v) == [k |-> "contains", a |-> a, v |-> v]
Class(c)          == [k |-> "class", a |-> "class", v |-> c]
Id(i)             == [k |-> "eq", a |-> "id", v |-> i]

Step(comb, tag, conds) == [comb |-> comb, tag |-> tag, conds |-> conds]
\* a selector made of one compound selector
Simple(tag, conds) == [valid |-> TRUE, alts |-> << <<Step("", tag, conds)>> >>]
Complex(steps)     == [valid |-> TRUE, alts |-> <<steps>>]
List(alts)         == [valid |-> TRUE, alts |-> alts]
\* a string querySelector rejects with a SyntaxError
Invalid            == [valid |-> FALSE, alts |-> <<>>]

condHolds(d, n, c) ==
  CASE c.k = "has"   -> hasAttribute(d, n, c.a)
    [] c.k = "class" -> \E i \in 1..Len(d[n].cls) : d[n].cls[i] = c.v
    [] c.k = "eq"    -> hasAttribute(d, n, c.a) /\ getAttribute(d, n, c.a) = c.v
    [] c.k = "contains" ->
         IF c.a = "class" THEN classIncludes(d, n, c.v)
         ELSE hasAttribute(d, n, c.a) /\ includes(getAttribute(d, n, c.a), c.v)

compoundMatches(d, n, s) ==
  /\ s.tag \in {"*", d[n].tag}
  /\ \A c \in s.conds : condHolds(d, n, c)

\* element n matches the first i steps of the complex selector steps
RECURSIVE stepsMatch(_, _, _, _)
stepsMatch(d, n, steps, i) ==
  /\ n # DocumentNode
  /\ compoundMatches(d, n, steps[i])
  /\ \/ i = 1
     \/ /\ steps[i].comb = ">"
        /\ stepsMatch(d, d[n].parent, steps, i - 1)
     \/ /\ steps[i].comb = " "
        /\ \E m \in 1..Len(d) : isDescendant(d, n, m) /\ stepsMatch(d, m, steps, i - 1)

\* Element.matches(selector), for a valid selector
matches(d, n, sel) ==
  \E j \in 1..Len(sel.alts) : stepsMatch(d, n, sel.alts[j], Len(sel.alts[j]))

RECURSIVE SeqOfSet(_)
\* the elements of a set of element indices, in document order
SeqOfSet(S) ==
  IF S = {} THEN <<>>
  ELSE LET m == CHOOSE x \in S : \A y \in S : x <= y
       IN <<m>> \o SeqOfSet(S \ {m})

\* root.querySelectorAll(selector), for a valid selector: the matching
\* descendants of r in document order
querySelectorAll(d, r, sel) ==
  SeqOfSet({n \in 1..Len(d) : isDescendant(d, n, r) /\ matches(d, n, sel)})

\* root.querySelector(selector): the first match in document order, or null
querySelector(d, r, sel) ==
  LET all == querySelectorAll(d, r, sel)
  IN IF all = <<>> THEN NULL ELSE all[1]

descendants(d, r) == {n \in 1..Len(d) : isDescendant(d, n, r)}

RECURSIVE concatText(_, _)
concatText(d, ns) ==
  IF ns = <<>> THEN <<>> ELSE d[Head(ns)].text \o concatText(d, Tail(ns))

\* Node.textContent of element n: the text of n and of its descendants in
\* document order
textContent(d, n) == concatText(d, SeqOfSet({n} \cup descendants(d, n)))

WhiteSpace == {" ", "\t", "\n", "\r"}

RECURSIVE trimStart(_)
trimStart(s) ==
  IF s # <<>> /\ Head(s) \in WhiteSpace THEN trimStart(Tail(s)) ELSE s

RECURSIVE trimEnd(_)
trimEnd(s) ==
  IF s # <<>> /\ s[Len(s)] \in WhiteSpace
  THEN trimEnd(SubSeq(s, 1, Len(s) - 1)) ELSE s

\* String.prototype.trim
trim(s) == trimEnd(trimStart(s))

(***************************************************************************)
(* Selector configurations (selectors.ts)                                  *)
(***************************************************************************)
MIN_CONTAINER_HEIGHT == 200

\* 'p, pre, code, ul, ol'
BlockChildSelector ==
  List(<< <<Step("", "p", {})>>, <<Step("", "pre", {})>>, <<Step("", "code", {})>>,
          <<Step("", "ul", {})>>, <<Step("", "ol", {})>> >>)

\* config.heuristic(el); h names the predicate, "none" when the config has none
heuristic(d, h, el) ==
  CASE h = "container" ->
         \* el.clientHeight || 0; children.length > 0 && (height > MIN || height === 0)
         LET height == d[el].height
         IN children(d, el) # {} /\ (height > MIN_CONTAINER_HEIGHT \/ height = 0)
    [] h = "messageBlock" ->
         /\ Len(trim(textContent(d, el))) > 5
         /\ querySelector(d, el, BlockChildSelector) # NULL
    [] h = "textLength10" ->
         \* (el.textContent?.length || 0) > 10, the heuristic of the unit test
         Len(textContent(d, el)) > 10
    [] OTHER -> TRUE

CONVERSATION_CONTAINER ==
  [primary |-> <<
     Simple("main", {AttrContains("class", "conversation")}), \* main[class*="conversation"]
     Simple("*", {AttrEq("role", "main")}),                   \* [role="main"]
     Simple("main", {}),                                      \* main
     Simple("*", {Class("conversation-container")}),          \* .conversation-container
     Simple("*", {AttrEq("data-testid", "conversation")}) >>, \* [data-testid="conversation"]
   fallback |-> <<
     \* body > div > div > div > main
     Complex(<<Step("", "body", {}), Step(">", "div", {}), Step(">", "div", {}),
               Step(">", "div", {}), Step(">", "main", {})>>),
     \* body > div[id] > main
     Complex(<<Step("", "body", {}), Step(">", "div", {HasAttr("id")}),
               Step(">", "main", {})>>),
     \* #__next main
     Complex(<<Step("", "*", {Id("__next")}), Step(" ", "main", {})>>) >>,
   heuristic |-> "container"]

MESSAGE_BLOCKS ==
  [primary |-> <<
     Simple("*", {HasAttr("data-message-id")}),                      \* [data-message-id]
     Simple("*", {AttrContains("data-testid", "conversation-turn")}), \* [data-testid*="conversation-turn"]
     Simple("*", {AttrContains("data-testid", "message")}),          \* [data-testid*="message"]
     Simple("*", {AttrContains("class", "message")}),                \* [class*="message"]
     Simple("*", {Class("group"), HasAttr("data-testid")}) >>,       \* .group[data-testid]
   fallback |-> <<
     \* main > div > div > div
     Complex(<<Step("", "main", {}), Step(">", "div", {}), Step(">", "div", {}),
               Step(">", "div", {})>>),
     \* main [class*="group"]
     Complex(<<Step("", "main", {}), Step(" ", "*", {AttrContains("class", "group")})>>),
     Simple("article", {}) >>,                                       \* article
   heuristic |-> "messageBlock"]

MESSAGE_CONTENT ==
  [primary |-> <<
     Simple("*", {HasAttr("data-message-content")}),            \* [data-message-content]
     Simple("*", {AttrContains("class", "message-content")}),   \* [class*="message-content"]
     Simple("*", {Class("markdown")}),                          \* .markdown
     Simple("*", {AttrContains("class", "prose")}) >>,          \* [class*="prose"]
   fallback |-> <<
     Simple("div", {AttrContains("class", "whitespace")}),      \* div[class*="whitespace"]
     Simple("div", {AttrContains("class", "text")}),            \* div[class*="text"]
     Invalid >>,                                                \* > div > div
   heuristic |-> "none"]

\* { primary: ['main'], fallback: [], heuristic: textContent.length > 10 }
TestMainConfig ==
  [primary |-> << Simple("main", {}) >>, fallback |-> <<>>, heuristic |-> "textLength10"]

\* a configuration whose tiers begin with a selector that is not valid:
\* { primary: ['> div', '[data-message-id]'], fallback: ['> div', 'article'] }
\* with the heuristic of MESSAGE_BLOCKS
InvalidFirstConfig ==
  [primary |-> << Invalid, Simple("*", {HasAttr("data-message-id")}) >>,
   fallback |-> << Invalid, Simple("article", {}) >>, heuristic |-> "messageBlock"]

\* { primary: ['nonexistent'], fallback: ['alsononexistent'] }
TestNoneConfig ==
  [primary |-> << Simple("nonexistent", {}) >>,
   fallback |-> << Simple("alsononexistent", {}) >>, heuristic |-> "none"]

(***************************************************************************)
(* findElement and findElements (selectors.ts)                             *)
(***************************************************************************)
RECURSIVE firstAccepted_stopAtInvalid(_, _, _, _, _)
\* faulty variant: the error of an invalid selector ends the loop
firstAccepted_stopAtInvalid(d, r, selectors, h, i) ==
  IF i > Len(selectors) THEN NULL
  ELSE IF ~selectors[i].valid THEN NULL
  ELSE LET element == querySelector(d, r, selectors[i])
       IN IF element # NULL /\ (h = "none" \/ heuristic(d, h, element))
          THEN element
          ELSE firstAccepted_stopAtInvalid(d, r, selectors, h, i + 1)

RECURSIVE firstAccepted(_, _, _, _, _)
\* one "for (const selector of ...)" loop of findElement, from selector i on:
\* the first selector's first match that the heuristic accepts, else null
firstAccepted(d, r, selectors, h, i) ==
  IF i > Len(selectors) THEN NULL
  ELSE IF ~selectors[i].valid THEN firstAccepted(d, r, selectors, h, i + 1)
  ELSE LET element == querySelector(d, r, selectors[i])
       IN IF element # NULL /\ (h = "none" \/ heuristic(d, h, element))
          THEN element
          ELSE firstAccepted(d, r, selectors, h, i + 1)

\* faulty variant: the fallback selectors are tried before the primary ones
findElement_fallbackFirst(d, r, config) ==
  LET p == firstAccepted(d, r, config.fallback, config.heuristic, 1)
  IN IF p # NULL THEN p
     ELSE firstAccepted(d, r, config.primary, config.heuristic, 1)

\* faulty variant: the heuristic is not consulted
findElement_anyMatch(d, r, config) ==
  LET p == firstAccepted(d, r, config.primary, "none", 1)
  IN IF p # NULL THEN p
     ELSE firstAccepted(d, r, config.fallback, "none", 1)

findElement(d, r, config) ==
  LET p == firstAccepted(d, r, config.primary, config.heuristic, 1)
  IN IF p # NULL THEN p
     ELSE firstAccepted(d, r, config.fallback, config.heuristic, 1)

RECURSIVE addMatches_noSeen(_, _, _, _, _)
\* faulty variant: the seen set is not consulted
addMatches_noSeen(d, h, ms, i, acc) ==
  IF i > Len(ms) THEN acc
  ELSE LET el == ms[i]
       IN IF h = "none" \/ heuristic(d, h, el)
          THEN addMatches_noSeen(d, h, ms, i + 1,
                 [seen |-> acc.seen \cup {el}, elements |-> Append(acc.elements, el)])
          ELSE addMatches_noSeen(d, h, ms, i + 1, acc)

RECURSIVE addMatches(_, _, _, _, _)
\* matches.forEach(el => { if (!seen.has(el) && heuristic(el)) { seen.add; push } })
addMatches(d, h, ms, i, acc) ==
  IF i > Len(ms) THEN acc
  ELSE LET el == ms[i]
       IN IF el \notin acc.seen /\ (h = "none" \/ heuristic(d, h, el))
          THEN addMatches(d, h, ms, i + 1,
                 [seen |-> acc.seen \cup {el}, elements |-> Append(acc.elements, el)])
          ELSE addMatches(d, h, ms, i + 1, acc)

RECURSIVE collect(_, _, _, _, _, _)
\* one "for (const selector of ...)" loop of findElements, from selector i on
collect(d, r, selectors, h, i, acc) ==
  IF i > Len(selectors) THEN acc
  ELSE IF ~selectors[i].valid THEN collect(d, r, selectors, h, i + 1, acc)
  ELSE collect(d, r, selectors, h, i + 1,
         addMatches(d, h, querySelectorAll(d, r, selectors[i]), 1, acc))

\* faulty variant: the fallback selectors are evaluated after the primary
\* ones whatever these gave
findElements_merged(d, r, config) ==
  collect(d, r, config.fallback, config.heuristic, 1,
          collect(d, r, config.primary, config.heuristic, 1,
                  [seen |-> {}, elements |-> <<>>])).elements

findElements(d, r, config) ==
  LET p == collect(d, r, config.primary, config.heuristic, 1,
                   [seen |-> {}, elements |-> <<>>])
  IN IF Len(p.elements) = 0
     THEN collect(d, r, config.fallback, config.heuristic, 1, p).elements
     ELSE p.elements

(***************************************************************************)
(* Strings (stableIds.ts: normalizeWhitespace)                             *)
(***************************************************************************)
UpperCase == <<"A", "B", "C", "D", "E", "F", "G", "H", "I", "J", "K", "L", "M",
               "N", "O", "P", "Q", "R", "S", "T", "U", "V", "W", "X", "Y", "Z">>
LowerCase == <<"a", "b", "c", "d", "e", "f", "g", "h", "i", "j", "k", "l", "m",
               "n", "o", "p", "q", "r", "s", "t", "u", "v", "w", "x", "y", "z">>
Digits == <<"0", "1", "2", "3", "4", "5", "6", "7", "8", "9">>

LowerOf == [c \in {UpperCase[i] : i \in 1..26} |->
              LowerCase[CHOOSE i \in 1..26 : UpperCase[i] = c]]

\* String.prototype.toLowerCase, one character
lowerChar(c) == IF c \in DOMAIN LowerOf THEN LowerOf[c] ELSE c

toLowerCase(s) == [i \in 1..Len(s) |-> lowerChar(s[i])]

RECURSIVE replaceCRLF(_)
\* .replace(/\r\n/g, '\n').replace(/\r/g, '\n')
replaceCRLF(s) ==
  IF s = <<>> THEN <<>>
  ELSE IF Head(s) = "\r"
       THEN IF Len(s) >= 2 /\ s[2] = "\n"
            THEN <<"\n">> \o replaceCRLF(Tail(Tail(s)))
            ELSE <<"\n">> \o replaceCRLF(Tail(s))
       ELSE <<Head(s)>> \o replaceCRLF(Tail(s))

RECURSIVE collapseSpaces(_)
\* .replace(/[ \t]+/g, ' ')
collapseSpaces(s) ==
  IF s = <<>> THEN <<>>
  ELSE IF Head(s) \in {" ", "\t"}
       THEN IF Len(s) >= 2 /\ s[2] \in {" ", "\t"}
            THEN collapseSpaces(Tail(s))
            ELSE <<" ">> \o collapseSpaces(Tail(s))
       ELSE <<Head(s)>> \o collapseSpaces(Tail(s))

\* faulty variant: the text is not trimmed
normalizeWhitespace_noTrim(text) == collapseSpaces(replaceCRLF(text))

\* faulty variant: runs of spaces and tabs are kept as they are
normalizeWhitespace_noCollapse(text) == trim(replaceCRLF(text))

normalizeWhitespace(text) == trim(collapseSpaces(replaceCRLF(text)))

(***************************************************************************)
(* Content extraction (normalize.ts)                                       *)
(***************************************************************************)
\* a selector list of compound selectors, one per tag
Tags(ts) == List([i \in 1..Len(ts) |-> <<Step("", ts[i], {})>>])

\* 'button', '[role="button"]', '.copy-button', '[class*="toolbar"]',
\* '[class*="action"]', '[aria-label*="Copy"]', '[aria-label*="Regenerate"]',
\* '[aria-label*="Edit"]'
uiSelectors ==
  << Simple("button", {}),
     Simple("*", {AttrEq("role", "button")}),
     Simple("*", {Class("copy-button")}),
     Simple("*", {AttrContains("class", "toolbar")}),
     Simple("*", {AttrContains("class", "action")}),
     Simple("*", {AttrContains("aria-label", "Copy")}),
     Simple("*", {AttrContains("aria-label", "Regenerate")}),
     Simple("*", {AttrContains("aria-label", "Edit")}) >>

\* 'pre, code[class*="language-"], ol, ul, blockquote, h1, h2, h3, h4, h5, h6, img'
StructuralSelector ==
  List(<< <<Step("", "pre", {})>>,
          <<Step("", "code", {AttrContains("class", "language-")})>>,
          <<Step("", "ol", {})>>, <<Step("", "ul", {})>>,
          <<Step("", "blockquote", {})>>,
          <<Step("", "h1", {})>>, <<Step("", "h2", {})>>, <<Step("", "h3", {})>>,
          <<Step("", "h4", {})>>, <<Step("", "h5", {})>>, <<Step("", "h6", {})>>,
          <<Step("", "img", {})>> >>)

\* Element.tagName: upper case for the elements of an HTML document
tagName(d, n) ==
  CASE d[n].tag = "pre" -> <<"P", "R", "E">>
    [] d[n].tag = "code" -> <<"C", "O", "D", "E">>
    [] d[n].tag = "ol" -> <<"O", "L">>
    [] d[n].tag = "ul" -> <<"U", "L">>
    [] d[n].tag = "blockquote" -> <<"B", "L", "O", "C", "K", "Q", "U", "O", "T", "E">>
    [] d[n].tag = "img" -> <<"I", "M", "G">>
    [] d[n].tag \in {"h1", "h2", "h3", "h4", "h5", "h6"} ->
         <<"H", Digits[(CHOOSE l \in 1..6 : d[n].tag = <<"h1", "h2", "h3", "h4", "h5", "h6">>[l]) + 1]>>
    [] OTHER -> <<"?">>

\* element.cloneNode(true): a private copy of the subtree of n.  The copy is
\* the tree d, the root n, the elements removed from the copy and the
\* elements replaced in it by a placeholder text node.
cloneNode(d, n) == [d |-> d, root |-> n, removed |-> {}, replaced |-> {}]

\* the elements of the copy that are still attached to its root
attached(c) ==
  {n \in descendants(c.d, c.root) :
     /\ n \notin c.removed \cup c.replaced
     /\ \A a \in c.removed \cup c.replaced : ~isDescendant(c.d, n, a)}

\* clone.querySelectorAll(selector), a selector without combinators
cloneQueryAll(c, sel) == {n \in attached(c) : matches(c.d, n, sel)}

\* the text nodes of the copy in document order: own texts of the attached
\* elements and the placeholders
RECURSIVE cloneTextFrom(_, _)
cloneTextFrom(c, ns) ==
  IF ns = <<>> THEN <<>>
  ELSE LET n == Head(ns)
           gone == \E a \in c.removed \cup c.replaced : isDescendant(c.d, n, a)
           piece == IF gone \/ n \in c.removed THEN <<>>
                    ELSE IF n \in c.replaced
                         THEN <<" ", "[">> \o tagName(c.d, n) \o <<"]", " ">>
                         ELSE c.d[n].text
       IN piece \o cloneTextFrom(c, Tail(ns))

\* clone.textContent
cloneTextContent(c) ==
  c.d[c.root].text \o cloneTextFrom(c, SeqOfSet(descendants(c.d, c.root)))

RECURSIVE removeUi(_, _)
\* uiSelectors.forEach(sel => clone.querySelectorAll(sel).forEach(el => el.remove()))
removeUi(c, i) ==
  IF i > Len(uiSelectors) THEN c
  ELSE removeUi([c EXCEPT !.removed = @ \cup cloneQueryAll(c, uiSelectors[i])], i + 1)

\* extractTextContent applied to a copy (it copies its argument again)
extractTextOfClone(c) == normalizeWhitespace(cloneTextContent(removeUi(c, 1)))

\* extractTextContent(element)
extractTextContent(d, n) == extractTextOfClone(cloneNode(d, n))

\* null, where the code has a string | null
NullStr == <<"null">>

\* the tag captured by /(?:language|lang)-(\w+)/ in a class token, if any
LanguageTag ==
  [t \in {"language-python", "lang-JS"} |->
     IF t = "language-python" THEN <<"p", "y", "t", "h", "o", "n">> ELSE <<"J", "S">>]

\* block.className.match(/(?:language|lang)-(\w+)/i): the first capture, lower-cased
classLanguage(d, n) ==
  LET hits == {i \in 1..Len(d[n].cls) : d[n].cls[i] \in DOMAIN LanguageTag}
  IN IF hits = {} THEN NullStr
     ELSE toLowerCase(LanguageTag[d[n].cls[CHOOSE i \in hits : \A j \in hits : i <= j]])

\* 'pre code, pre, code[class*="language-"]'
CodeBlockSelector ==
  List(<< <<Step("", "pre", {}), Step(" ", "code", {})>>,
          <<Step("", "pre", {})>>,
          <<Step("", "code", {AttrContains("class", "language-")})>> >>)

\* '[class*="language"], [data-language]'
LanguageLabelSelector ==
  List(<< <<Step("", "*", {AttrContains("class", "language")})>>,
          <<Step("", "*", {HasAttr("data-language")})>> >>)

\* the language of a code block: its class, else a label under its parent
codeLanguage(d, block) ==
  LET language(fromClass, label) ==
        IF fromClass # NullStr THEN fromClass
        ELSE IF label = NULL THEN NullStr
        ELSE IF hasAttribute(d, label, "data-language")
                /\ getAttribute(d, label, "data-language") # <<>>
             THEN getAttribute(d, label, "data-language")
             ELSE trim(toLowerCase(textContent(d, label)))
  IN language(classLanguage(d, block),
              IF d[block].parent = DocumentNode THEN NULL
              ELSE querySelector(d, d[block].parent, LanguageLabelSelector))

extractCodeBlocks(d, element) ==
  LET codeBlocks == querySelectorAll(d, element, CodeBlockSelector)
      all == [i \in 1..Len(codeBlocks) |->
                [type |-> "code", lang |-> codeLanguage(d, codeBlocks[i]),
                 code |-> trim(textContent(d, codeBlocks[i]))]]
  IN SelectSeq(all, LAMBDA part : part.code # <<>>)

\* the texts of the li children of a list, the empty ones left out
listItems(d, list) ==
  LET lis == SeqOfSet({k \in children(d, list) : d[k].tag = "li"})
      texts == [i \in 1..Len(lis) |-> extractTextContent(d, lis[i])]
  IN SelectSeq(texts, LAMBDA text : text # <<>>)

extractLists(d, element) ==
  LET lists == querySelectorAll(d, element, Tags(<<"ol", "ul">>))
      all == [i \in 1..Len(lists) |->
                [type |-> "list", ordered |-> d[lists[i]].tag = "ol",
                 items |-> listItems(d, lists[i])]]
  IN SelectSeq(all, LAMBDA part : Len(part.items) > 0)

\* 'blockquote, [class*="quote"]'
QuoteSelector ==
  List(<< <<Step("", "blockquote", {})>>,
          <<Step("", "*", {AttrContains("class", "quote")})>> >>)

extractQuotes(d, element) ==
  LET quotes == querySelectorAll(d, element, QuoteSelector)
      all == [i \in 1..Len(quotes) |->
                [type |-> "quote", text |-> extractTextContent(d, quotes[i])]]
  IN SelectSeq(all, LAMBDA part : part.text # <<>>)

HeadingTags == <<"h1", "h2", "h3", "h4", "h5", "h6">>

extractHeadings(d, element) ==
  LET headings == querySelectorAll(d, element, Tags(HeadingTags))
      all == [i \in 1..Len(headings) |->
                [type |-> "heading",
                 level |-> CHOOSE l \in 1..6 : HeadingTags[l] = d[headings[i]].tag,
                 text |-> extractTextContent(d, headings[i])]]
  IN SelectSeq(all, LAMBDA part : part.text # <<>>)

attributeOrNull(d, n, a) == IF hasAttribute(d, n, a) THEN getAttribute(d, n, a) ELSE NullStr

extractImages(d, element) ==
  LET images == querySelectorAll(d, element, Tags(<<"img">>))
  IN [i \in 1..Len(images) |->
        [type |-> "imageRef", alt |-> attributeOrNull(d, images[i], "alt"),
         src |-> attributeOrNull(d, images[i], "src")]]

\* faulty variant: the raw text of the fallback keeps the UI controls
extractContentParts_rawFallback(d, element) ==
  LET assemble(codeBlocks, lists, quotes, headings, images, remainingText, rawText) ==
        LET parts ==
              IF Len(codeBlocks) > 0 \/ Len(lists) > 0 \/ Len(quotes) > 0
                 \/ Len(headings) > 0
              THEN headings \o quotes \o lists \o codeBlocks \o images
                     \o (IF Len(remainingText) > 10
                         THEN << [type |-> "text", text |-> remainingText] >> ELSE <<>>)
              ELSE IF remainingText # <<>>
                   THEN << [type |-> "text", text |-> remainingText] >> ELSE <<>>
        IN IF Len(parts) = 0
           THEN IF rawText # <<>>
                THEN << [type |-> "unknown", rawText |-> rawText] >> ELSE <<>>
           ELSE parts
      stripped(clone) ==
        [clone EXCEPT !.replaced = cloneQueryAll(clone, StructuralSelector)]
  IN assemble(extractCodeBlocks(d, element), extractLists(d, element),
              extractQuotes(d, element), extractHeadings(d, element),
              extractImages(d, element),
              extractTextOfClone(stripped(cloneNode(d, element))),
              normalizeWhitespace(textContent(d, element)))

\* faulty variant: the text part is put first
extractContentParts_textFirst(d, element) ==
  LET assemble(codeBlocks, lists, quotes, headings, images, remainingText, rawText) ==
        LET parts ==
              IF Len(codeBlocks) > 0 \/ Len(lists) > 0 \/ Len(quotes) > 0
                 \/ Len(headings) > 0
              THEN (IF Len(remainingText) > 10
                    THEN << [type |-> "text", text |-> remainingText] >> ELSE <<>>)
                     \o headings \o quotes \o lists \o codeBlocks \o images
              ELSE IF remainingText # <<>>
                   THEN << [type |-> "text", text |-> remainingText] >> ELSE <<>>
        IN IF Len(parts) = 0
           THEN IF rawText # <<>>
                THEN << [type |-> "unknown", rawText |-> rawText] >> ELSE <<>>
           ELSE parts
      stripped(clone) ==
        [clone EXCEPT !.replaced = cloneQueryAll(clone, StructuralSelector)]
  IN assemble(extractCodeBlocks(d, element), extractLists(d, element),
              extractQuotes(d, element), extractHeadings(d, element),
              extractImages(d, element),
              extractTextOfClone(stripped(cloneNode(d, element))),
              extractTextContent(d, element))

\* faulty variant: the remaining text is kept whatever its length
extractContentParts_anyText(d, element) ==
  LET assemble(codeBlocks, lists, quotes, headings, images, remainingText, rawText) ==
        LET parts ==
              IF Len(codeBlocks) > 0 \/ Len(lists) > 0 \/ Len(quotes) > 0
                 \/ Len(headings) > 0
              THEN headings \o quotes \o lists \o codeBlocks \o images
                     \o (IF remainingText # <<>>
                         THEN << [type |-> "text", text |-> remainingText] >> ELSE <<>>)
              ELSE IF remainingText # <<>>
                   THEN << [type |-> "text", text |-> remainingText] >> ELSE <<>>
        IN IF Len(parts) = 0
           THEN IF rawText # <<>>
                THEN << [type |-> "unknown", rawText |-> rawText] >> ELSE <<>>
           ELSE parts
      stripped(clone) ==
        [clone EXCEPT !.replaced = cloneQueryAll(clone, StructuralSelector)]
  IN assemble(extractCodeBlocks(d, element), extractLists(d, element),
              extractQuotes(d, element), extractHeadings(d, element),
              extractImages(d, element),
              extractTextOfClone(stripped(cloneNode(d, element))),
              extractTextContent(d, element))

extractContentParts(d, element) ==
  LET assemble(codeBlocks, lists, quotes, headings, images, remainingText, rawText) ==
        LET parts ==
              IF Len(codeBlocks) > 0 \/ Len(lists) > 0 \/ Len(quotes) > 0
                 \/ Len(headings) > 0
              THEN headings \o quotes \o lists \o codeBlocks \o images
                     \o (IF Len(remainingText) > 10
                         THEN << [type |-> "text", text |-> remainingText] >> ELSE <<>>)
              ELSE IF remainingText # <<>>
                   THEN << [type |-> "text", text |-> remainingText] >> ELSE <<>>
        IN IF Len(parts) = 0
           THEN IF rawText # <<>>
                THEN << [type |-> "unknown", rawText |-> rawText] >> ELSE <<>>
           ELSE parts
      stripped(clone) ==
        [clone EXCEPT !.replaced = cloneQueryAll(clone, StructuralSelector)]
  IN assemble(extractCodeBlocks(d, element), extractLists(d, element),
              extractQuotes(d, element), extractHeadings(d, element),
              extractImages(d, element),
              extractTextOfClone(stripped(cloneNode(d, element))),
              extractTextContent(d, element))

(***************************************************************************)
(* Role detection (selectors.ts)                                           *)
(***************************************************************************)
ROLE_INDICATORS ==
  [user |-> << Simple("*", {AttrEq("data-role", "user")}),           \* [data-role="user"]
               Simple("*", {AttrContains("class", "user")}),         \* [class*="user"]
               Simple("*", {AttrContains("data-testid", "user")}) >>, \* [data-testid*="user"]
   assistant |-> << Simple("*", {AttrEq("data-role", "assistant")}),
                    Simple("*", {AttrContains("class", "assistant")}),
                    Simple("*", {AttrContains("class", "bot")}),
                    Simple("*", {AttrContains("data-testid", "assistant")}) >>,
   system |-> << Simple("*", {AttrEq("data-role", "system")}),
                 Simple("*", {AttrContains("class", "system")}) >>]

\* checkSelectors: the element or one of its descendants matches a selector
checkSelectors(d, element, selectors) ==
  \E i \in 1..Len(selectors) :
    /\ selectors[i].valid
    /\ \/ matches(d, element, selectors[i])
       \/ querySelector(d, element, selectors[i]) # NULL

\* elements of the SVG namespace: their className is an SVGAnimatedString,
\* which has no toLowerCase
SvgTags == {"svg", "foreignObject"}

\* String.prototype.toLowerCase on the class tokens and attribute values of
\* the model that have an upper-case letter
LowerStr ==
  [s \in {"User", "Assistant-Turn", "SYSTEM"} |->
     CASE s = "User" -> "user"
       [] s = "Assistant-Turn" -> "assistant-turn"
       [] s = "SYSTEM" -> "system"]

toLowerStr(s) == IF s \in DOMAIN LowerStr THEN LowerStr[s] ELSE s

\* element.className.toLowerCase().includes(sub)
classNamesInclude(d, n, sub) ==
  \E i \in 1..Len(d[n].cls) : includes(toLowerStr(d[n].cls[i]), sub)

\* faulty variant: the assistant indicators are checked before the user ones
detectRole_assistantFirst(d, element) ==
  IF checkSelectors(d, element, ROLE_INDICATORS.assistant) THEN "assistant"
  ELSE IF checkSelectors(d, element, ROLE_INDICATORS.user) THEN "user"
  ELSE IF checkSelectors(d, element, ROLE_INDICATORS.system) THEN "system"
  ELSE "unknown"

\* detectRole(element); "TypeError" when className.toLowerCase() throws
detectRole(d, element) ==
  IF checkSelectors(d, element, ROLE_INDICATORS.user) THEN "user"
  ELSE IF checkSelectors(d, element, ROLE_INDICATORS.assistant) THEN "assistant"
  ELSE IF checkSelectors(d, element, ROLE_INDICATORS.system) THEN "system"
  ELSE IF d[element].tag \in SvgTags THEN "TypeError"
  ELSE LET dataRole == IF hasAttribute(d, element, "data-role")
                       THEN toLowerStr(getAttribute(d, element, "data-role"))
                       ELSE "undefined"
       IN IF dataRole = "user" \/ classNamesInclude(d, element, "user") THEN "user"
          ELSE IF \/ dataRole = "assistant"
                  \/ classNamesInclude(d, element, "assistant")
                  \/ classNamesInclude(d, element, "bot") THEN "assistant"
          ELSE IF dataRole = "system" \/ classNamesInclude(d, element, "system")
               THEN "system"
          ELSE "unknown"

(***************************************************************************)
(* Stable ids (stableIds.ts)                                               *)
(***************************************************************************)
RECURSIVE join(_, _)
\* Array.prototype.join
join(strs, sep) ==
  IF strs = <<>> THEN <<>>
  ELSE IF Len(strs) = 1 THEN strs[1]
  ELSE strs[1] \o sep \o join(Tail(strs), sep)

RECURSIVE decimal(_)
\* the decimal rendering of a number >= 0
decimal(n) == IF n < 10 THEN <<Digits[n + 1]>> ELSE decimal(n \div 10) \o <<Digits[(n % 10) + 1]>>

\* one part's fragment of the canonical text
partText(part) ==
  CASE part.type = "text" -> normalizeWhitespace(part.text)
    [] part.type = "code" ->
         <<"[", "C", "O", "D", "E", ":">> \o (IF part.lang \in {NullStr, <<>>} THEN <<"p", "l", "a", "i", "n">> ELSE part.lang)
           \o <<"]">> \o normalizeWhitespace(part.code)
    [] part.type = "list" ->
         <<"[", "L", "I", "S", "T", ":">> \o (IF part.ordered THEN <<"o", "l">> ELSE <<"u", "l">>) \o <<"]">>
           \o join([i \in 1..Len(part.items) |-> normalizeWhitespace(part.items[i])], <<"|">>)
    [] part.type = "quote" -> <<"[", "Q", "U", "O", "T", "E", "]">> \o normalizeWhitespace(part.text)
    [] part.type = "link" ->
         <<"[", "L", "I", "N", "K", ":">> \o part.href \o <<"]">> \o normalizeWhitespace(part.text)
    [] part.type = "heading" ->
         <<"[", "H">> \o decimal(part.level) \o <<"]">> \o normalizeWhitespace(part.text)
    [] part.type = "imageRef" ->
         <<"[", "I", "M", "G", ":">> \o (IF part.src = NullStr THEN <<"n", "u", "l", "l">> ELSE part.src) \o <<"]">>
           \o (IF part.alt = NullStr THEN <<>> ELSE part.alt)
    [] part.type = "unknown" -> normalizeWhitespace(part.rawText)

normalizePartsText(parts) ==
  join([i \in 1..Len(parts) |-> partText(parts[i])], <<"\n">>)

WordChars ==
  {"_"} \cup {UpperCase[i] : i \in 1..26} \cup {LowerCase[i] : i \in 1..26}
        \cup {Digits[i] : i \in 1..10}

\* \w of a regular expression
isWordChar(c) == c \in WordChars

\* \b holds before position i of s
boundaryAt(s, i) ==
  LET before == i > 1 /\ i - 1 <= Len(s) /\ isWordChar(s[i - 1])
      after == i >= 1 /\ i <= Len(s) /\ isWordChar(s[i])
  IN before # after

\* the lower-case word w stands at position i of s, in any letter case
wordAt(s, w, i) ==
  /\ i + Len(w) - 1 <= Len(s)
  /\ \A k \in 1..Len(w) : lowerChar(s[i + k - 1]) = w[k]

RECURSIVE skipSpace(_, _)
\* the first position from i on that holds no white space (\s*)
skipSpace(s, i) ==
  IF i <= Len(s) /\ s[i] \in WhiteSpace THEN skipSpace(s, i + 1) ELSE i

\* the length of the match of /\bthumb(s)?\s*(up|down)\b/i at position i, 0 if none
thumbMatch(s, i) ==
  IF ~(boundaryAt(s, i) /\ wordAt(s, <<"t", "h", "u", "m", "b">>, i)) THEN 0
  ELSE LET j == IF wordAt(s, <<"s">>, i + 5) THEN i + 6 ELSE i + 5
           k == skipSpace(s, j)
           e == IF wordAt(s, <<"u", "p">>, k) THEN k + 2
                ELSE IF wordAt(s, <<"d", "o", "w", "n">>, k) THEN k + 4 ELSE 0
       IN IF e # 0 /\ boundaryAt(s, e) THEN e - i ELSE 0

\* the length of the match of noise pattern p at position i of s, 0 if none
noiseMatch(s, p, i) ==
  IF p = <<"thumb">> THEN thumbMatch(s, i)
  ELSE IF boundaryAt(s, i) /\ wordAt(s, p, i) /\ boundaryAt(s, i + Len(p))
       THEN Len(p) ELSE 0

RECURSIVE removeNoise(_, _, _)
\* s.replace(pattern, '') for a global pattern, scanning from position i
removeNoise(s, p, i) ==
  IF i > Len(s) THEN <<>>
  ELSE LET n == noiseMatch(s, p, i)
       IN IF n > 0 THEN removeNoise(s, p, i + n)
          ELSE <<s[i]>> \o removeNoise(s, p, i + 1)

RECURSIVE skipDigits(_, _)
skipDigits(s, i) ==
  IF i <= Len(s) /\ s[i] \in {Digits[k] : k \in 1..10} THEN skipDigits(s, i + 1) ELSE i

\* the whole of s matches /^\s*[\d]+\s*\/\s*[\d]+\s*$/
isCounter(s) ==
  LET a == skipSpace(s, 1)
      b == skipDigits(s, a)
      c == skipSpace(s, b)
      e == skipSpace(s, c + 1)
      f == skipDigits(s, e)
      g == skipSpace(s, f)
  IN b > a /\ c <= Len(s) /\ s[c] = "/" /\ f > e /\ g = Len(s) + 1

\* the word patterns of UI_NOISE_PATTERNS; <<"thumb">> stands for the
\* thumb(s) up/down pattern
UI_NOISE_PATTERNS ==
  << <<"c", "o", "p", "y">>, <<"c", "o", "p", "i", "e", "d">>, <<"r", "e", "g", "e", "n", "e", "r", "a", "t", "e">>, <<"e", "d", "i", "t">>, <<"thumb">>, <<"s", "h", "a", "r", "e">>, <<"c", "o", "n", "t", "i", "n", "u", "e">> >>

RECURSIVE stripWords(_, _)
stripWords(text, i) ==
  IF i > Len(UI_NOISE_PATTERNS) THEN text
  ELSE stripWords(removeNoise(text, UI_NOISE_PATTERNS[i], 1), i + 1)

stripUIText(text) ==
  LET cleaned == stripWords(text, 1)
  IN IF isCounter(cleaned) THEN <<>> ELSE cleaned

\* the printable ASCII characters of codes 32..95 and 97..126
AsciiLow ==
  <<" ", "!", "\"", "#", "$", "%", "&", "'", "(", ")", "*", "+", ",", "-", ".", "/",
    "0", "1", "2", "3", "4", "5", "6", "7", "8", "9", ":", ";", "<", "=", ">", "?",
    "@", "A", "B", "C", "D", "E", "F", "G", "H", "I", "J", "K", "L", "M", "N", "O",
    "P", "Q", "R", "S", "T", "U", "V", "W", "X", "Y", "Z", "[", "\\", "]", "^", "_">>
AsciiHigh ==
  <<"a", "b", "c", "d", "e", "f", "g", "h", "i", "j", "k", "l", "m", "n", "o",
    "p", "q", "r", "s", "t", "u", "v", "w", "x", "y", "z", "{", "|", "}", "~">>

CharCodes ==
  [c \in {"\t", "\n", "\r"} \cup {AsciiLow[i] : i \in 1..Len(AsciiLow)}
            \cup {AsciiHigh[i] : i \in 1..Len(AsciiHigh)} |->
     CASE c = "\t" -> 9
       [] c = "\n" -> 10
       [] c = "\r" -> 13
       [] \E i \in 1..Len(AsciiHigh) : AsciiHigh[i] = c ->
            96 + CHOOSE i \in 1..Len(AsciiHigh) : AsciiHigh[i] = c
       [] OTHER -> 31 + CHOOSE i \in 1..Len(AsciiLow) : AsciiLow[i] = c]

\* String.prototype.charCodeAt
charCode(c) == CharCodes[c]

RECURSIVE xor(_, _)
\* a ^ b on numbers >= 0
xor(a, b) ==
  IF a = 0 THEN b
  ELSE IF b = 0 THEN a
  ELSE (((a % 2) + (b % 2)) % 2) + 2 * xor(a \div 2, b \div 2)

\* A 32-bit value is kept as two 16-bit halves.
Half == 65536

\* hash = (hash * 33) ^ str.charCodeAt(i), in 32 bits
hashStep(h, code) ==
  LET lo33 == h.lo * 33
      hi33 == ((h.hi * 33) + (lo33 \div Half)) % Half
  IN [hi |-> hi33, lo |-> xor(lo33 % Half, code)]

RECURSIVE hashFrom(_, _, _)
hashFrom(str, i, h) ==
  IF i > Len(str) THEN h
  ELSE LET next == hashStep(h, charCode(str[i]))
       IN IF next.lo < Half THEN hashFrom(str, i + 1, next) ELSE next

Base36 == Digits \o LowerCase

RECURSIVE toString36(_)
\* (hash >>> 0).toString(36)
toString36(h) ==
  LET r == h.hi % 36
      low == (r * Half) + h.lo
      q == [hi |-> h.hi \div 36, lo |-> low \div 36]
      digit == <<Base36[(low % 36) + 1]>>
  IN IF q.hi = 0 /\ q.lo = 0 THEN digit ELSE toString36(q) \o digit

\* faulty variant: the hash is rendered as a signed 32-bit number
hashString_signed(str) ==
  LET signed(h) ==
        IF h.hi < Half \div 2 THEN toString36(h)
        ELSE <<"-">> \o toString36([hi |-> (Half - 1 - h.hi) + (IF h.lo = 0 THEN 1 ELSE 0),
                                    lo |-> (Half - h.lo) % Half])
  IN signed(hashFrom(str, 1, [hi |-> 0, lo |-> 5381]))

hashString(str) == toString36(hashFrom(str, 1, [hi |-> 0, lo |-> 5381]))

\* the characters of a role name
roleText(role) ==
  CASE role = "user" -> <<"u", "s", "e", "r">>
    [] role = "assistant" -> <<"a", "s", "s", "i", "s", "t", "a", "n", "t">>
    [] role = "system" -> <<"s", "y", "s", "t", "e", "m">>
    [] OTHER -> <<"u", "n", "k", "n", "o", "w", "n">>

\* the string that generateMessageId hashes
hashInputOf(role, parts, index) ==
  roleText(role) \o <<":">> \o stripUIText(normalizePartsText(parts)) \o <<":">>
    \o decimal(index)

\* faulty variant: the role is left out of the hashed string
generateMessageId_noRole(role, parts, index) ==
  LET normalizedText == normalizePartsText(parts)
      cleanedText == stripUIText(normalizedText)
      hashInput == <<":">> \o cleanedText \o <<":">> \o decimal(index)
      hash == hashString(hashInput)
  IN <<"m", "s", "g", "_">> \o hash \o <<"_">> \o decimal(index)

\* faulty variant: the id does not end with the index
generateMessageId_noIndex(role, parts, index) ==
  LET normalizedText == normalizePartsText(parts)
      cleanedText == stripUIText(normalizedText)
      hashInput == roleText(role) \o <<":">> \o cleanedText
      hash == hashString(hashInput)
  IN <<"m", "s", "g", "_">> \o hash

generateMessageId(role, parts, index) ==
  LET normalizedText == normalizePartsText(parts)
      cleanedText == stripUIText(normalizedText)
      hashInput == roleText(role) \o <<":">> \o cleanedText \o <<":">> \o decimal(index)
      hash == hashString(hashInput)
  IN <<"m", "s", "g", "_">> \o hash \o <<"_">> \o decimal(index)

(***************************************************************************)
(* The orchestrator (parseChatGpt.ts)                                      *)
(***************************************************************************)
TITLE_SELECTORS ==
  [primary |-> <<
     Simple("h1", {}),                                            \* h1
     Simple("*", {AttrContains("class", "conversation-title")}),  \* [class*="conversation-title"]
     Simple("*", {AttrContains("data-testid", "title")}),         \* [data-testid*="title"]
     Complex(<<Step("", "header", {}), Step(" ", "h1", {})>>),    \* header h1
     Complex(<<Step("", "header", {}), Step(" ", "h2", {})>>) >>, \* header h2
   fallback |-> <<
     Complex(<<Step("", "main", {}), Step(" ", "h1", {})>>),      \* main h1
     Complex(<<Step("", "nav", {}), Step(" ", "h1", {})>>),       \* nav h1
     Simple("title", {}) >>,                                      \* title
   heuristic |-> "none"]

\* [a-zA-Z0-9-_]
isIdChar(c) == isWordChar(c) \/ c = "-"

RECURSIVE skipIdChars(_, _)
skipIdChars(s, i) ==
  IF i <= Len(s) /\ isIdChar(s[i]) THEN skipIdChars(s, i + 1) ELSE i

\* url.match(/\/c\/([a-zA-Z0-9-_]+)/): the capture of the leftmost match, or undefined
extractChatId(u) ==
  LET starts == {i \in 1..Len(u) :
                   /\ i + 3 <= Len(u)
                   /\ u[i] = "/" /\ u[i + 1] = "c" /\ u[i + 2] = "/"
                   /\ isIdChar(u[i + 3])}
  IN IF starts = {} THEN NullStr
     ELSE LET i == CHOOSE k \in starts : \A j \in starts : k <= j
          IN SubSeq(u, i + 3, skipIdChars(u, i + 3) - 1)

\* s.includes(sub) on character sequences
includesText(s, sub) ==
  \E i \in 1..(Len(s) - Len(sub) + 1) : SubSeq(s, i, i + Len(sub) - 1) = sub

\* Document.title: the text of the first title element, white space stripped
\* and collapsed; empty without one
documentTitle(d) ==
  LET t == querySelector(d, DocumentNode, Simple("title", {}))
  IN IF t = NULL THEN <<>>
     ELSE trim(collapseSpaces([i \in 1..Len(textContent(d, t)) |->
                 IF textContent(d, t)[i] \in WhiteSpace THEN " " ELSE textContent(d, t)[i]]))

extractTitle(d) ==
  LET titleElement == findElement(d, DocumentNode, TITLE_SELECTORS)
      title == IF titleElement = NULL THEN <<>> ELSE trim(textContent(d, titleElement))
      docTitle == documentTitle(d)
  IN IF titleElement # NULL /\ Len(title) > 0 /\ Len(title) < 200 THEN title
     ELSE IF docTitle # <<>> /\ ~includesText(docTitle, <<"C", "h", "a", "t", "G", "P", "T">>) THEN docTitle
     ELSE NullStr

\* generateSelectorHint(element): tag, id, the first two class tokens and the
\* position among the siblings of the same tag; ThrownHint when
\* className.split is no function
ThrownHint == [tag |-> "TypeError", id |-> "", classes |-> <<>>, nth |-> 0]

generateSelectorHint(d, element) ==
  IF d[element].tag \in SvgTags THEN ThrownHint
  ELSE [tag |-> d[element].tag,
        id |-> IF hasAttribute(d, element, "id") THEN getAttribute(d, element, "id") ELSE "",
        classes |-> SubSeq(d[element].cls, 1, IF Len(d[element].cls) < 2
                                              THEN Len(d[element].cls) ELSE 2),
        nth |-> 1 + Cardinality({k \in 1..(element - 1) :
                                   /\ d[k].parent = d[element].parent
                                   /\ d[k].tag = d[element].tag})]

\* a warning: `${prefix} ${index}: ${text}`, or text alone when index is -1
Warning(text) == [prefix |-> "", index |-> -1, text |-> text]
MessageWarning(i, text) == [prefix |-> "Message", index |-> i, text |-> text]

\* 'time[datetime]'
TimeSelector == Simple("time", {HasAttr("datetime")})

NoHint == [tag |-> "", id |-> "", classes |-> <<>>, nth |-> 0]

\* faulty variant: a message without parts is kept
parseMessage_keepEmpty(d, element, i, opts, warns) ==
  LET message(role, parts) ==
        IF role = "TypeError"
        THEN [message |-> <<>>,
              warnings |-> Append(warns, MessageWarning(i, "Parse error - TypeError"))]
        ELSE [message |-> << [id |-> generateMessageId(role, parts, i), index |-> i,
                              role |-> role, parts |-> parts, domRef |-> NoHint,
                              createdAt |-> NullStr] >>,
              warnings |-> warns]
  IN message(detectRole(d, element), extractContentParts(d, element))

\* faulty variant: an error is caught without a warning
parseMessage_silentCatch(d, element, i, opts, warns) ==
  LET caught == [message |-> <<>>, warnings |-> warns]
      datetime(timeElement) ==
        IF timeElement = NULL THEN <<>> ELSE getAttribute(d, timeElement, "datetime")
      createdAt(value) == IF value # <<>> THEN value ELSE NullStr
      message(role, parts, hint) ==
        IF role = "TypeError" THEN caught
        ELSE IF Len(parts) = 0
             THEN [message |-> <<>>,
                   warnings |-> Append(warns, MessageWarning(i, "No content extracted"))]
        ELSE IF hint = ThrownHint THEN caught
        ELSE [message |-> << [id |-> generateMessageId(role, parts, i), index |-> i,
                              role |-> role, parts |-> parts, domRef |-> hint,
                              createdAt |->
                                createdAt(datetime(querySelector(d, element, TimeSelector)))] >>,
              warnings |-> warns]
  IN message(detectRole(d, element), extractContentParts(d, element),
             IF opts.debug THEN generateSelectorHint(d, element) ELSE NoHint)

\* parseMessage(element, index, options, warnings): the message, if any, as
\* a sequence of zero or one message, and the warnings list after the call
parseMessage(d, element, i, opts, warns) ==
  LET caught ==
        [message |-> <<>>,
         warnings |-> Append(warns, MessageWarning(i, "Parse error - TypeError"))]
      datetime(timeElement) ==
        IF timeElement = NULL THEN <<>> ELSE getAttribute(d, timeElement, "datetime")
      createdAt(value) == IF value # <<>> THEN value ELSE NullStr
      message(role, parts, hint) ==
        IF role = "TypeError" THEN caught
        ELSE IF Len(parts) = 0
             THEN [message |-> <<>>,
                   warnings |-> Append(warns, MessageWarning(i, "No content extracted"))]
        ELSE IF hint = ThrownHint THEN caught
        ELSE [message |-> << [id |-> generateMessageId(role, parts, i), index |-> i,
                              role |-> role, parts |-> parts, domRef |-> hint,
                              createdAt |->
                                createdAt(datetime(querySelector(d, element, TimeSelector)))] >>,
              warnings |-> warns]
  IN message(detectRole(d, element), extractContentParts(d, element),
             IF opts.debug THEN generateSelectorHint(d, element) ELSE NoHint)

NoOutcome == [kind |-> "none"]

MaxCalls == 2
MaxClock == 1

\* faulty variant: the warnings list outlives the call
ParseBegin_sharedWarnings ==
  /\ pc \in {"idle", "done", "thrown"}
  /\ calls < MaxCalls
  /\ calls' = calls + 1
  /\ previous' = outcome
  /\ outcome' = IF findElement(dom, DocumentNode, CONVERSATION_CONTAINER) = NULL
                THEN [kind |-> "throw", error |-> "Conversation container not found"]
                ELSE NoOutcome
  /\ container' = findElement(dom, DocumentNode, CONVERSATION_CONTAINER)
  /\ warnings' = IF container' = NULL
                 THEN Append(warnings, Warning("Could not find conversation container"))
                 ELSE warnings
  /\ pc' = IF container' = NULL THEN "thrown" ELSE "container"
  /\ messageElements' = <<>>
  /\ messages' = <<>>
  /\ sources' = <<>>
  /\ idx' = 0
  /\ UNCHANGED <<dom, url, findVars, callVars, options, now>>

\* parseChatGpt(doc, options) is called with the Document: the warnings list is
\* created and the conversation container resolved; none found is fatal
ParseBegin ==
  /\ pc \in {"idle", "done", "thrown"}
  /\ calls < MaxCalls
  /\ calls' = calls + 1
  /\ previous' = outcome
  /\ outcome' = IF findElement(dom, DocumentNode, CONVERSATION_CONTAINER) = NULL
                THEN [kind |-> "throw", error |-> "Conversation container not found"]
                ELSE NoOutcome
  /\ container' = findElement(dom, DocumentNode, CONVERSATION_CONTAINER)
  /\ warnings' = IF container' = NULL
                 THEN << Warning("Could not find conversation container") >> ELSE <<>>
  /\ pc' = IF container' = NULL THEN "thrown" ELSE "container"
  /\ messageElements' = <<>>
  /\ messages' = <<>>
  /\ sources' = <<>>
  /\ idx' = 0
  /\ UNCHANGED <<dom, url, findVars, callVars, options, now>>

\* faulty variant: no warning when no message block is found
ParseEnumerate_silent ==
  /\ pc = "container"
  /\ messageElements' = findElements(dom, container, MESSAGE_BLOCKS)
  /\ warnings' = warnings
  /\ messages' = <<>>
  /\ sources' = <<>>
  /\ idx' = 0
  /\ pc' = "messages"
  /\ UNCHANGED <<dom, url, findVars, callVars, options, now, container, outcome, previous, calls>>

\* the message blocks are enumerated under the container
ParseEnumerate ==
  /\ pc = "container"
  /\ messageElements' = findElements(dom, container, MESSAGE_BLOCKS)
  /\ warnings' = IF Len(messageElements') = 0
                 THEN Append(warnings, Warning("No message blocks found")) ELSE warnings
  /\ messages' = <<>>
  /\ sources' = <<>>
  /\ idx' = 0
  /\ pc' = "messages"
  /\ UNCHANGED <<dom, url, findVars, callVars, options, now, container, outcome, previous, calls>>

\* faulty variant: the messages are numbered by their position among the kept ones
ParseNextMessage_renumber ==
  /\ pc = "messages"
  /\ idx < Len(messageElements)
  /\ \E r \in {parseMessage(dom, messageElements[idx + 1], Len(messages), options,
                             warnings)} :
       /\ messages' = messages \o r.message
       /\ sources' = IF r.message = <<>> THEN sources
                      ELSE Append(sources, messageElements[idx + 1])
       /\ warnings' = r.warnings
  /\ idx' = idx + 1
  /\ UNCHANGED <<dom, url, findVars, callVars, options, now, pc, container, messageElements,
                 outcome, previous, calls>>

\* faulty variant: parseMessage has no try/catch, an error ends the call
ParseNextMessage_abort ==
  /\ pc = "messages"
  /\ idx < Len(messageElements)
  /\ \E r \in {parseMessage(dom, messageElements[idx + 1], idx, options, warnings)},
        threw \in {\/ detectRole(dom, messageElements[idx + 1]) = "TypeError"
                   \/ /\ options.debug
                      /\ generateSelectorHint(dom, messageElements[idx + 1]) = ThrownHint} :
       /\ messages' = messages \o r.message
       /\ sources' = IF r.message = <<>> THEN sources
                      ELSE Append(sources, messageElements[idx + 1])
       /\ warnings' = IF threw THEN warnings ELSE r.warnings
       /\ pc' = IF threw THEN "thrown" ELSE pc
       /\ outcome' = IF threw THEN [kind |-> "throw", error |-> "TypeError"] ELSE outcome
  /\ idx' = idx + 1
  /\ UNCHANGED <<dom, url, findVars, callVars, options, now, container, messageElements,
                 previous, calls>>

\* faulty variant: the UI controls are removed from the element itself, not
\* from a copy of it (a removed element keeps its place and loses its text)
ParseNextMessage_inPlace ==
  /\ pc = "messages"
  /\ idx < Len(messageElements)
  /\ \E r \in {parseMessage(dom, messageElements[idx + 1], idx, options, warnings)} :
       /\ messages' = messages \o r.message
       /\ sources' = IF r.message = <<>> THEN sources
                      ELSE Append(sources, messageElements[idx + 1])
       /\ warnings' = r.warnings
  /\ idx' = idx + 1
  /\ dom' = [n \in 1..Len(dom) |->
               IF n \in removeUi(cloneNode(dom, messageElements[idx + 1]), 1).removed
               THEN [dom[n] EXCEPT !.tag = "#removed", !.text = <<>>] ELSE dom[n]]
  /\ UNCHANGED <<url, findVars, callVars, options, now, pc, container, messageElements,
                 outcome, previous, calls>>

\* one turn of messageElements.forEach
ParseNextMessage ==
  /\ pc = "messages"
  /\ idx < Len(messageElements)
  /\ \E r \in {parseMessage(dom, messageElements[idx + 1], idx, options, warnings)} :
       /\ messages' = messages \o r.message
       /\ sources' = IF r.message = <<>> THEN sources
                      ELSE Append(sources, messageElements[idx + 1])
       /\ warnings' = r.warnings
  /\ idx' = idx + 1
  /\ UNCHANGED <<dom, url, findVars, callVars, options, now, pc, container, messageElements,
                 outcome, previous, calls>>

\* the metadata is extracted and the result returned
ParseFinish ==
  /\ pc = "messages"
  /\ idx = Len(messageElements)
  /\ outcome' =
       [kind |-> "return",
        document |->
          [schemaVersion |-> "1.0",
           source |-> [url |-> url, capturedAt |-> now, platform |-> "chatgpt"],
           chat |-> [chatId |-> extractChatId(url), title |-> extractTitle(dom)],
           messages |-> messages],
        warnings |-> warnings]
  /\ pc' = "done"
  /\ UNCHANGED <<dom, url, findVars, callVars, options, now, container, messageElements, idx,
                 messages, sources, warnings, previous, calls>>

\* time passes (the clock is read at the end of a call only, so only the
\* time passing between two calls is modelled)
Tick ==
  /\ pc \in {"done", "thrown"}
  /\ calls < MaxCalls
  /\ now < MaxClock
  /\ now' = now + 1
  /\ UNCHANGED <<dom, url, findVars, callVars, options, pc, container, messageElements, idx,
                 messages, sources, warnings, outcome, previous, calls>>

(***************************************************************************)
(* The trees of the model: a page skeleton with up to MaxBlocks blocks     *)
(* attached under its host element.  The texts and shapes are those of the *)
(* unit tests (parseChatGpt.test.ts, selectors.test.ts) and variations.    *)
(***************************************************************************)
\* "Hello, how are you?"
T_Hello ==
  <<"H", "e", "l", "l", "o", ",", " ", "h", "o", "w", " ", "a", "r", "e",
    " ", "y", "o", "u", "?">>

\* "I'm doing well, thank you!"
T_Well ==
  <<"I", "'", "m", " ", "d", "o", "i", "n", "g", " ", "w", "e", "l", "l",
    ",", " ", "t", "h", "a", "n", "k", " ", "y", "o", "u", "!">>

\* "Second message"
T_Second ==
  <<"S", "e", "c", "o", "n", "d", " ", "m", "e", "s", "s", "a", "g", "e">>

\* "Hi"
T_Hi ==
  <<"H", "i">>

\* "Copy code"
T_Copy ==
  <<"C", "o", "p", "y", " ", "c", "o", "d", "e">>

\* "Vector text"
T_Vector ==
  <<"V", "e", "c", "t", "o", "r", " ", "t", "e", "x", "t">>

\* "Fallback text"
T_Fallback ==
  <<"F", "a", "l", "l", "b", "a", "c", "k", " ", "t", "e", "x", "t">>

\* "Nested text"
T_Nested ==
  <<"N", "e", "s", "t", "e", "d", " ", "t", "e", "x", "t">>

\* "print('hello')"
T_Print ==
  <<"p", "r", "i", "n", "t", "(", "\"", "h", "e", "l", "l", "o", "\"", ")">>

\* "Small"
T_Small ==
  <<"S", "m", "a", "l", "l">>

\* "Large content here"
T_Large ==
  <<"L", "a", "r", "g", "e", " ", "c", "o", "n", "t", "e", "n", "t", " ",
    "h", "e", "r", "e">>

\* "My Conversation Title"
T_Title ==
  <<"M", "y", " ", "C", "o", "n", "v", "e", "r", "s", "a", "t", "i", "o",
    "n", " ", "T", "i", "t", "l", "e">>

\* a block: its elements in document order; parent 0 is the host, parent k
\* the block's k-th element
B_user ==        \* <div data-message-id="1" data-role="user"><p>Hello, how are you?</p></div>
  << El(0, "div", <<>>, [x \in {"data-message-id", "data-role"} |->
                         IF x = "data-role" THEN "user" ELSE "1"], <<>>, 0),
     El(1, "p", <<>>, NoAttrs, T_Hello, 0) >>
B_assistant ==   \* <div class="message-assistant"><p>I'm doing well, thank you!</p></div>
  << El(0, "div", <<"message-assistant">>, NoAttrs, <<>>, 0),
     El(1, "p", <<>>, NoAttrs, T_Well, 0) >>
B_turn ==        \* <div class="message" data-testid="conversation-turn-1"><p>Second message</p></div>
  << El(0, "div", <<"message">>, [x \in {"data-testid"} |-> "conversation-turn-1"], <<>>, 0),
     El(1, "p", <<>>, NoAttrs, T_Second, 0) >>
B_button ==      \* <div data-message-id="4"><button><p>Copy code</p></button></div>
  << El(0, "div", <<>>, [x \in {"data-message-id"} |-> "4"], <<>>, 0),
     El(1, "button", <<>>, NoAttrs, <<>>, 0),
     El(2, "p", <<>>, NoAttrs, T_Copy, 0) >>
B_svg ==         \* <svg data-message-id="5"><foreignObject><p>Vector text</p></foreignObject></svg>
  << El(0, "svg", <<>>, [x \in {"data-message-id"} |-> "5"], <<>>, 0),
     El(1, "foreignObject", <<>>, NoAttrs, <<>>, 0),
     El(2, "p", <<>>, NoAttrs, T_Vector, 0) >>
B_short ==       \* <div data-message-id="6"><p>Hi</p></div>
  << El(0, "div", <<>>, [x \in {"data-message-id"} |-> "6"], <<>>, 0),
     El(1, "p", <<>>, NoAttrs, T_Hi, 0) >>
B_article ==     \* <article><p>Fallback text</p></article>
  << El(0, "article", <<>>, NoAttrs, <<>>, 0),
     El(1, "p", <<>>, NoAttrs, T_Fallback, 0) >>
B_nested ==      \* <div class="message"><div data-message-id="8"><p>Nested text</p></div></div>
  << El(0, "div", <<"message">>, NoAttrs, <<>>, 0),
     El(1, "div", <<>>, [x \in {"data-message-id"} |-> "8"], <<>>, 0),
     El(2, "p", <<>>, NoAttrs, T_Nested, 0) >>
B_content ==     \* <div data-message-id="9" data-message-content class="markdown prose"><p>Second message</p></div>
  << El(0, "div", <<"markdown", "prose">>,
        [x \in {"data-message-id", "data-message-content"} |->
           IF x = "data-message-id" THEN "9" ELSE ""], <<>>, 0),
     El(1, "p", <<>>, NoAttrs, T_Second, 0) >>
B_mainSmall ==   \* <main class="small">Small</main>
  << El(0, "main", <<"small">>, NoAttrs, T_Small, 0) >>
B_mainLarge ==   \* <main class="large">Large content here</main>
  << El(0, "main", <<"large">>, NoAttrs, T_Large, 0) >>

\* a page skeleton: its elements and the element the blocks hang under
W_main ==        \* <body><main>...</main></body>
  [nodes |-> << El(0, "body", <<>>, NoAttrs, <<>>, 0),
                El(1, "main", <<>>, NoAttrs, <<>>, 0) >>, host |-> 2]
W_low ==         \* a main whose clientHeight is 150
  [nodes |-> << El(0, "body", <<>>, NoAttrs, <<>>, 0),
                El(1, "main", <<>>, NoAttrs, <<>>, 150) >>, host |-> 2]
W_div ==         \* <body><div>...</div></body>: no main at all
  [nodes |-> << El(0, "body", <<>>, NoAttrs, <<>>, 0),
                El(1, "div", <<>>, NoAttrs, <<>>, 0) >>, host |-> 2]
W_role ==        \* <body><div role="main">...</div></body>
  [nodes |-> << El(0, "body", <<>>, NoAttrs, <<>>, 0),
                El(1, "div", <<>>, [x \in {"role"} |-> "main"], <<>>, 0) >>, host |-> 2]
W_next ==        \* <body><main></main><div id="__next"><main>...</main></div></body>
  [nodes |-> << El(0, "body", <<>>, NoAttrs, <<>>, 0),
                El(1, "main", <<>>, NoAttrs, <<>>, 0),
                El(1, "div", <<>>, [x \in {"id"} |-> "__next"], <<>>, 0),
                El(3, "main", <<>>, NoAttrs, <<>>, 600) >>, host |-> 4]

RECURSIVE attach(_, _, _)
\* the tree d with the blocks appended under host, in order
attach(d, host, blocks) ==
  IF blocks = <<>> THEN d
  ELSE LET b == Head(blocks)
           off == Len(d)
           placed == [i \in 1..Len(b) |->
                        [b[i] EXCEPT !.parent = IF @ = 0 THEN host ELSE @ + off]]
       IN attach(d \o placed, host, Tail(blocks))

MaxBlocks == 2

SeqsUpTo(S, n) == UNION {[1..k -> S] : k \in 0..n}

Trees(skeletons, blocks, n) ==
  {attach(w.nodes, w.host, bs) : w \in skeletons, bs \in SeqsUpTo(blocks, n)}

W_title ==       \* <body><h1>My Conversation Title</h1><main>...</main></body>
  [nodes |-> << El(0, "body", <<>>, NoAttrs, <<>>, 0),
                El(1, "h1", <<>>, NoAttrs, T_Title, 0),
                El(1, "main", <<>>, NoAttrs, <<>>, 0) >>, host |-> 3]

\* 'https://chat.openai.com/c/abc123def456'
U_chat ==
  <<"h", "t", "t", "p", "s", ":", "/", "/", "c", "h", "a", "t", ".", "o", "p", "e", "n", "a", "i", ".", "c", "o", "m", "/", "c", "/", "a", "b", "c", "1", "2", "3", "d", "e", "f", "4", "5", "6">>

(***************************************************************************)
(* Parse calls: parseChatGpt called, up to MaxCalls times, on a tree.      *)
(***************************************************************************)
ParseSkeletons == {W_main, W_low, W_div, W_role, W_next}
ParseBlocks == {B_user, B_assistant, B_turn, B_button, B_svg, B_short, B_article,
                B_nested}

Init ==
  /\ dom \in Trees(ParseSkeletons, ParseBlocks, MaxBlocks)
  /\ url = U_chat
  /\ options \in {[debug |-> FALSE], [debug |-> TRUE]}
  /\ op = "none"
  /\ cfg = TestNoneConfig
  /\ root = DocumentNode
  /\ found = NULL
  /\ foundAll = <<>>
  /\ now = 0
  /\ pc = "idle"
  /\ container = NULL
  /\ messageElements = <<>>
  /\ idx = 0
  /\ messages = <<>>
  /\ sources = <<>>
  /\ warnings = <<>>
  /\ outcome = NoOutcome
  /\ previous = NoOutcome
  /\ calls = 0
  /\ startTime = 0
  /\ input = <<>>
  /\ output = <<>>

Next == ParseBegin \/ ParseEnumerate \/ ParseNextMessage \/ ParseFinish \/ Tick

Spec == Init /\ [][Next]_vars

\* the selectors of a configuration in the order findElement tries them
tierOrder(c) == c.primary \o c.fallback

Range(f) == {f[i] : i \in DOMAIN f}

(***************************************************************************)
(* Claims about the orchestrator                                           *)
(***************************************************************************)
\* the elements of the tree that some CONVERSATION_CONTAINER selector matches
containerMatches(d) ==
  {n \in 1..Len(d) : \E i \in 1..Len(tierOrder(CONVERSATION_CONTAINER)) :
     LET sel == tierOrder(CONVERSATION_CONTAINER)[i]
     IN sel.valid /\ matches(d, n, sel)}

\* no element matching a container selector passes the container heuristic
noContainer(d) == \A n \in containerMatches(d) : ~heuristic(d, "container", n)

\* the retained messages, while the call runs and in what it returned
retained == IF pc = "done" THEN outcome.document.messages ELSE messages

\* classification or the locator hint throws for element el
throwsFor(el) ==
  \/ detectRole(dom, el) = "TypeError"
  \/ options.debug /\ generateSelectorHint(dom, el) = ThrownHint

C2_EmptyIsNotFatal ==
  /\ pc = "thrown" => container = NULL
  /\ pc = "messages" /\ messageElements = <<>> =>
       messages = <<>> /\ Warning("No message blocks found") \in Range(warnings)
  /\ pc = "done" /\ messageElements = <<>> =>
       /\ outcome.kind = "return"
       /\ outcome.document.messages = <<>>
       /\ Warning("No message blocks found") \in Range(outcome.warnings)

\* C2 witness: a call returned after resolving a container with children and
\* no message block
C2_Witness ==
  /\ pc = "done"
  /\ container # NULL
  /\ children(dom, container) # {}
  /\ messageElements = <<>>
  /\ outcome.kind = "return"

\* C3: every retained message has at least one part; an enumerated element
\* whose extraction yields no part contributes no message and has a warning
\* naming its position.
C3_DropRule ==
  pc \in {"messages", "done"} =>
    /\ \A k \in 1..Len(retained) : Len(retained[k].parts) > 0
    /\ \A i \in 0..(idx - 1) :
         extractContentParts(dom, messageElements[i + 1]) = <<>> =>
           /\ \A k \in 1..Len(retained) : retained[k].index # i
           /\ \E w \in Range(warnings) : w.prefix = "Message" /\ w.index = i

\* C3 witness: a call returned a message although an enumerated element had
\* no part
C3_Witness ==
  /\ pc = "done"
  /\ Len(outcome.document.messages) > 0
  /\ \E i \in 1..Len(messageElements) :
       /\ ~throwsFor(messageElements[i])
       /\ extractContentParts(dom, messageElements[i]) = <<>>

\* C4: the index of a retained message is the position of its element in the
\* sequence findElements returned; the messages are in strictly ascending
\* index order; dropped elements leave gaps; without drops the indices are
\* 0, 1, 2, ...
C4_IndexRule ==
  pc \in {"messages", "done"} =>
    /\ Len(sources) = Len(retained)
    /\ \A k \in 1..Len(retained) :
         /\ retained[k].index \in 0..(Len(messageElements) - 1)
         /\ messageElements[retained[k].index + 1] = sources[k]
    /\ \A k \in 1..(Len(retained) - 1) : retained[k].index < retained[k + 1].index
    /\ Len(retained) = idx => \A k \in 1..Len(retained) : retained[k].index = k - 1

\* C4 witness: a returned document whose message indices have a gap
C4_Witness ==
  /\ pc = "done"
  /\ \E k \in 1..Len(outcome.document.messages) :
       outcome.document.messages[k].index > k - 1

\* C5: when classification throws for the element at position i, the error
\* does not end the call; a warning naming i is added, element i gives no
\* message, and the later elements are processed and give their messages.
C5_PerItemRecovery ==
  /\ pc = "thrown" => container = NULL /\ idx = 0
  /\ pc = "done" => idx = Len(messageElements)
  /\ pc \in {"messages", "done"} =>
       \A i \in 0..(idx - 1) :
         IF throwsFor(messageElements[i + 1])
         THEN /\ \E w \in Range(warnings) : w.prefix = "Message" /\ w.index = i
              /\ \A k \in 1..Len(retained) : retained[k].index # i
         ELSE extractContentParts(dom, messageElements[i + 1]) # <<>> =>
                \E k \in 1..Len(retained) : retained[k].index = i

\* C5 witness: a call returned a message of an element enumerated after one
\* for which classification threw
C5_Witness ==
  /\ pc = "done"
  /\ \E i \in 1..Len(messageElements) :
       /\ detectRole(dom, messageElements[i]) = "TypeError"
       /\ \E k \in 1..Len(outcome.document.messages) :
            outcome.document.messages[k].index > i - 1

C7_DocumentOrder ==
  pc \in {"messages", "done"} =>
    \A a, b \in 1..Len(retained) :
      retained[a].index < retained[b].index <=> sources[a] < sources[b]

(***************************************************************************)
(* Resolver calls: findElement and findElements called on a tree with one  *)
(* of the configurations of the source and of its unit tests.              *)
(***************************************************************************)
MaxFindBlocks == 2

FindSkeletons == {W_main, W_low, W_div, W_role, W_next}
FindBlocks == {B_user, B_assistant, B_turn, B_short, B_article, B_nested,
               B_content, B_mainSmall, B_mainLarge}
FindConfigs == {CONVERSATION_CONTAINER, MESSAGE_BLOCKS, MESSAGE_CONTENT,
                TestMainConfig, TestNoneConfig, InvalidFirstConfig}

\* the roots a call searches under: the Document and the children of body
Roots(d) == {DocumentNode} \cup {n \in 1..Len(d) : d[n].parent = 1}

InitFind ==
  /\ dom \in Trees(FindSkeletons, FindBlocks, MaxFindBlocks)
  /\ url = <<>>
  /\ op = "none"
  /\ cfg = TestNoneConfig
  /\ root = DocumentNode
  /\ found = NULL
  /\ foundAll = <<>>
  /\ options = [debug |-> FALSE]
  /\ now = 0
  /\ pc = "idle"
  /\ container = NULL
  /\ messageElements = <<>>
  /\ idx = 0
  /\ messages = <<>>
  /\ sources = <<>>
  /\ warnings = <<>>
  /\ outcome = NoOutcome
  /\ previous = NoOutcome
  /\ calls = 0
  /\ startTime = 0
  /\ input = <<>>
  /\ output = <<>>

\* a caller invokes findElement(root, config)
CallFindElement ==
  \E c \in FindConfigs, r \in Roots(dom) :
    /\ op = "none"
    /\ op' = "findElement"
    /\ cfg' = c
    /\ root' = r
    /\ found' = findElement(dom, r, c)
    /\ foundAll' = <<>>
    /\ UNCHANGED <<dom, url, parseVars, callVars>>

\* a caller invokes findElements(root, config)
CallFindElements ==
  \E c \in FindConfigs, r \in Roots(dom) :
    /\ op = "none"
    /\ op' = "findElements"
    /\ cfg' = c
    /\ root' = r
    /\ found' = NULL
    /\ foundAll' = findElements(dom, r, c)
    /\ UNCHANGED <<dom, url, parseVars, callVars>>

\* the caller drops the result; the resolver keeps nothing between calls
ReturnFind ==
  /\ op # "none"
  /\ op' = "none"
  /\ cfg' = TestNoneConfig
  /\ root' = DocumentNode
  /\ found' = NULL
  /\ foundAll' = <<>>
  /\ UNCHANGED <<dom, url, parseVars, callVars>>

NextFind == CallFindElement \/ CallFindElements \/ ReturnFind

SpecFind == InitFind /\ [][NextFind]_vars

(***************************************************************************)
(* Claims about the selector resolver                                      *)
(***************************************************************************)

\* the first structural match of a selector under r: the matching descendant
\* that no other matching descendant precedes; null if none or if invalid
firstMatch(d, r, sel) ==
  LET ms == {n \in descendants(d, r) : sel.valid /\ matches(d, n, sel)}
  IN IF ms = {} THEN NULL ELSE CHOOSE n \in ms : \A m \in ms : n <= m

\* the heuristic of configuration c accepts element n
accepts(d, c, n) == c.heuristic = "none" \/ heuristic(d, c.heuristic, n)

\* selector i of the tier order yields an accepted candidate
candidateAccepted(d, r, c, i) ==
  LET e == firstMatch(d, r, tierOrder(c)[i])
  IN e # NULL /\ accepts(d, c, e)

C9_LaterMatchReturned ==
  op = "findElement" /\ cfg.heuristic # "none" =>
    \A i \in 1..Len(tierOrder(cfg)) :
      LET sel == tierOrder(cfg)[i]
          ms == {n \in descendants(dom, root) : sel.valid /\ matches(dom, n, sel)}
          passing == {n \in ms : accepts(dom, cfg, n)}
      IN (/\ ms # {}
          /\ passing # {}
          /\ ~accepts(dom, cfg, firstMatch(dom, root, sel))
          /\ \A j \in 1..(i - 1) : ~candidateAccepted(dom, root, cfg, j))
         => found = CHOOSE n \in passing : \A m \in passing : n <= m

tierAccepted(d, r, c, tier) ==
  {n \in descendants(d, r) :
     /\ \E i \in 1..Len(tier) : tier[i].valid /\ matches(d, n, tier[i])
     /\ accepts(d, c, n)}

\* C11: when the primary selectors give at least one accepted element,
\* findElements returns exactly the accepted elements of the primary tier,
\* so nothing that only a fallback selector matches; the accepted elements of
\* the fallback tier are returned only when the primary tier accepted none.
C11_TiersNotMerged ==
  op = "findElements" =>
    LET result == {foundAll[i] : i \in 1..Len(foundAll)}
        primary == tierAccepted(dom, root, cfg, cfg.primary)
    IN IF primary # {} THEN result = primary
       ELSE result = tierAccepted(dom, root, cfg, cfg.fallback)

\* C11 witness: elements were returned for the primary tier while the
\* fallback tier had an accepted element that no primary selector matches
C11_Witness ==
  /\ op = "findElements"
  /\ foundAll # <<>>
  /\ tierAccepted(dom, root, cfg, cfg.primary) # {}
  /\ tierAccepted(dom, root, cfg, cfg.fallback)
       \ tierAccepted(dom, root, cfg, cfg.primary) # {}

\* the selectors of a tier that are valid, in order
validOnly(tier) == SelectSeq(tier, LAMBDA sel : sel.valid)

\* the configuration without its invalid selectors
withoutInvalid(c) ==
  [c EXCEPT !.primary = validOnly(c.primary), !.fallback = validOnly(c.fallback)]

\* C12: an invalid selector in a tier never makes findElement or findElements
\* fail: the call returns what it returns for the configuration without the
\* invalid selectors (an element or null, a sequence of elements).
C12_InvalidSelectorsSkipped ==
  /\ op = "findElement" =>
       /\ found \in 0..Len(dom)
       /\ found = findElement(dom, root, withoutInvalid(cfg))
  /\ op = "findElements" =>
       /\ \A i \in 1..Len(foundAll) : foundAll[i] \in 1..Len(dom)
       /\ foundAll = findElements(dom, root, withoutInvalid(cfg))

\* C12 witness: findElement returned the match of a selector that comes
\* after an invalid one in its tier
C12_Witness ==
  /\ op = "findElement"
  /\ found # NULL
  /\ \E i \in 1..Len(tierOrder(cfg)) : ~tierOrder(cfg)[i].valid
  /\ \E i \in 2..Len(cfg.primary) :
       /\ ~cfg.primary[i - 1].valid
       /\ found = firstMatch(dom, root, cfg.primary[i])

(***************************************************************************)
(* Role calls: detectRole called on an element of a small tree, as in the  *)
(* unit tests of selectors.ts.                                             *)
(***************************************************************************)
\* the resolver and the orchestrator are not in use
NoFind == cfg = TestNoneConfig /\ root = DocumentNode /\ found = NULL /\ foundAll = <<>>
NoParse ==
  /\ url = <<>>
  /\ options = [debug |-> FALSE]
  /\ now = 0
  /\ pc = "idle"
  /\ container = NULL
  /\ messageElements = <<>>
  /\ idx = 0
  /\ messages = <<>>
  /\ sources = <<>>
  /\ warnings = <<>>
  /\ outcome = NoOutcome
  /\ previous = NoOutcome
  /\ calls = 0
  /\ startTime = 0

\* the values of data-role, "" for no such attribute, and the class names
\* of the elements detectRole is called on
RoleAttributes == {"", "user", "assistant", "system", "SYSTEM"}
RoleClasses == {"", "user-turn", "message-assistant", "bot", "system-message",
                "message", "User"}

\* <div data-role=... class=...>
RoleElement(p, role, class) ==
  El(p, "div", IF class = "" THEN <<>> ELSE <<class>>,
     IF role = "" THEN NoAttrs ELSE [x \in {"data-role"} |-> role], <<>>, 0)

\* an element alone, or with one child element
RoleTrees ==
  {<<RoleElement(0, r, c)>> : r \in RoleAttributes, c \in RoleClasses}
  \cup {<<RoleElement(0, r, c), RoleElement(1, "", cc)>> :
          r \in RoleAttributes, c \in RoleClasses,
          cc \in {"user-turn", "message-assistant", "system-message"}}

InitRole ==
  /\ dom \in RoleTrees
  /\ op = "none"
  /\ input = <<>>
  /\ output = <<>>
  /\ NoFind
  /\ NoParse

\* a caller invokes detectRole(element)
CallDetectRole ==
  \E element \in 1..Len(dom) :
    /\ op = "none"
    /\ op' = "detectRole"
    /\ input' = <<element>>
    /\ output' = <<detectRole(dom, element)>>
    /\ UNCHANGED <<dom, url, cfg, root, found, foundAll, parseVars, startTime>>

NextRole == CallDetectRole

SpecRole == InitRole /\ [][NextRole]_vars

\* the element or one of its descendants matches an indicator of the set
indicated(d, element, selectors) ==
  \E n \in {element} \cup descendants(d, element) :
    \E i \in 1..Len(selectors) : matches(d, n, selectors[i])

\* C13: an element whose data-role is user, assistant or system gets that
\* role from detectRole, whatever its class name says.
C13_AttributePrecedence ==
  (/\ op = "detectRole"
   /\ hasAttribute(dom, input[1], "data-role")
   /\ getAttribute(dom, input[1], "data-role") \in {"user", "assistant", "system"})
  => output[1] = getAttribute(dom, input[1], "data-role")

\* the data-role or the class name of the element names a role
namesRole(d, element) ==
  \/ /\ hasAttribute(d, element, "data-role")
     /\ toLowerStr(getAttribute(d, element, "data-role")) \in {"user", "assistant", "system"}
  \/ \E sub \in {"user", "assistant", "bot", "system"} : classNamesInclude(d, element, sub)

T_Heading == <<"O", "v", "e", "r", "v", "i", "e", "w">>
\* "Quoted words"
T_Quote == <<"Q", "u", "o", "t", "e", "d", " ", "w", "o", "r", "d", "s">>
\* "One", "Two"
T_One == <<"O", "n", "e">>
T_Two == <<"T", "w", "o">>
\* "let x"
T_Let == <<"l", "e", "t", " ", "x">>
\* "a.png", "Chart"
T_Src == <<"a", ".", "p", "n", "g">>
T_Alt == <<"C", "h", "a", "r", "t">>

\* the children of a message block
K_heading ==     \* <h2>Overview</h2>
  << El(0, "h2", <<>>, NoAttrs, T_Heading, 0) >>
K_quote ==       \* <blockquote>Quoted words</blockquote>
  << El(0, "blockquote", <<>>, NoAttrs, T_Quote, 0) >>
K_list ==        \* <ul><li>One</li><li>Two</li></ul>
  << El(0, "ul", <<>>, NoAttrs, <<>>, 0),
     El(1, "li", <<>>, NoAttrs, T_One, 0),
     El(1, "li", <<>>, NoAttrs, T_Two, 0) >>
K_code ==        \* <pre><code class="language-python">print("hello")</code></pre>
  << El(0, "pre", <<>>, NoAttrs, <<>>, 0),
     El(1, "code", <<"language-python">>, NoAttrs, T_Print, 0) >>
K_pre ==         \* <pre class="lang-JS">let x</pre>
  << El(0, "pre", <<"lang-JS">>, NoAttrs, T_Let, 0) >>
K_image ==       \* <img src="a.png" alt="Chart">
  << El(0, "img", <<>>, [x \in {"src", "alt"} |-> IF x = "src" THEN T_Src ELSE T_Alt],
        <<>>, 0) >>
K_long ==        \* <p>Hello, how are you?</p>
  << El(0, "p", <<>>, NoAttrs, T_Hello, 0) >>
K_short ==       \* <p>Hi</p>
  << El(0, "p", <<>>, NoAttrs, T_Hi, 0) >>
K_button ==      \* <button>Copy code</button>
  << El(0, "button", <<>>, NoAttrs, T_Copy, 0) >>

\* <body><main><div data-message-id="1" data-role="assistant">...</div></main></body>
W_block ==
  [nodes |-> << El(0, "body", <<>>, NoAttrs, <<>>, 0),
                El(1, "main", <<>>, NoAttrs, <<>>, 0),
                El(2, "div", <<>>, [x \in {"data-message-id", "data-role"} |->
                                     IF x = "data-role" THEN "assistant" ELSE "1"],
                   <<>>, 0) >>, host |-> 3]

MaxChildren == 3

PartChildren == {K_heading, K_quote, K_list, K_code, K_pre, K_image, K_long, K_short,
                 K_button}

InitParts ==
  /\ dom \in Trees({W_block}, PartChildren, MaxChildren)
  /\ op = "none"
  /\ input = <<>>
  /\ output = <<>>
  /\ NoFind
  /\ NoParse

\* parseMessage invokes extractContentParts(element) on the message block
CallExtractContentParts ==
  /\ op = "none"
  /\ op' = "extractContentParts"
  /\ input' = <<W_block.host>>
  /\ output' = <<extractContentParts(dom, W_block.host)>>
  /\ UNCHANGED <<dom, url, cfg, root, found, foundAll, parseVars, startTime>>

NextParts == CallExtractContentParts

SpecParts == InitParts /\ [][NextParts]_vars

\* the place of a part type in the order heading, quote, list, code, image, text
typeRank(type) ==
  CASE type = "heading" -> 1
    [] type = "quote" -> 2
    [] type = "list" -> 3
    [] type = "code" -> 4
    [] type = "imageRef" -> 5
    [] type = "text" -> 6
    [] OTHER -> 7

remainingTextOf(d, element) ==
  extractTextOfClone([cloneNode(d, element) EXCEPT
                        !.replaced = cloneQueryAll(cloneNode(d, element), StructuralSelector)])

\* a heading, quote, list or code part was found in the element
structuredFound(d, element) ==
  \/ extractHeadings(d, element) # <<>>
  \/ extractQuotes(d, element) # <<>>
  \/ extractLists(d, element) # <<>>
  \/ extractCodeBlocks(d, element) # <<>>

\* C16: when a heading, quote, list or code part was found, the sequence
\* ends with a text part holding the remaining text exactly when that text
\* is longer than 10 characters; when none was found and the remaining text
\* is not empty, the sequence is that one text part (so no imageRef part).
C16_TextAssembly ==
  op = "extractContentParts" =>
    LET parts == output[1]
        remaining == remainingTextOf(dom, input[1])
        texts == {i \in 1..Len(parts) : parts[i].type = "text"}
    IN IF structuredFound(dom, input[1])
       THEN /\ texts # {} <=> Len(remaining) > 10
            /\ \A i \in texts : parts[i].text = remaining
            /\ \E i \in 1..Len(parts) :
                 parts[i].type \in {"heading", "quote", "list", "code"}
       ELSE remaining # <<>> => parts = << [type |-> "text", text |-> remaining] >>

\* C16 witness: a structured part was found and a remaining text of 10
\* characters or less was discarded
C16_Witness ==
  /\ op = "extractContentParts"
  /\ structuredFound(dom, input[1])
  /\ Len(remainingTextOf(dom, input[1])) \in 1..10
  /\ \A i \in 1..Len(output[1]) : output[1][i].type # "text"
  /\ \E n \in children(dom, input[1]) : dom[n].tag = "p"

\* the first code block of the element is a pre that wraps a code element
\* with a class language-X or lang-X
wrappedCode(d, element) ==
  LET blocks == querySelectorAll(d, element, CodeBlockSelector)
  IN IF blocks = <<>> \/ Len(d) < Head(blocks) + 1 THEN NULL
     ELSE IF /\ d[Head(blocks)].tag = "pre"
             /\ d[Head(blocks) + 1].tag = "code"
             /\ d[Head(blocks) + 1].parent = Head(blocks)
             /\ classLanguage(d, Head(blocks) + 1) # NullStr
          THEN Head(blocks) + 1 ELSE NULL

\* C17: for a block whose first code block is a code element with class
\* language-X or lang-X wrapped in a pre, the first code part has lang equal
\* to lower-cased X and a code that contains the text of the element.
C17_CodeLanguage ==
  (op = "extractContentParts" /\ wrappedCode(dom, input[1]) # NULL) =>
    LET parts == output[1]
        codes == {i \in 1..Len(parts) : parts[i].type = "code"}
        first == CHOOSE i \in codes : \A j \in codes : i <= j
    IN /\ codes # {}
       /\ parts[first].lang = classLanguage(dom, wrappedCode(dom, input[1]))
       /\ includesText(parts[first].code, trim(textContent(dom, wrappedCode(dom, input[1]))))

(***************************************************************************)
(* Id calls: generateMessageId called a few times; input and output keep   *)
(* the arguments and the id of each call.                                  *)
(***************************************************************************)
\* "Hello", "Hi there", "bC", "cb", "a\nb"
T_Word == <<"H", "e", "l", "l", "o">>
T_HiThere == <<"H", "i", " ", "t", "h", "e", "r", "e">>
T_bC == <<"b", "C">>
T_cb == <<"c", "b">>
T_Lines == <<"a", "\n", "b">>

BaseTexts == {T_Word, T_HiThere, T_bC, T_cb, T_Lines}

\* words that UI_NOISE_PATTERNS matches, as the page shows them
NoiseTokens == { <<"C", "o", "p", "y">>, <<"E", "d", "i", "t">> }

\* white space put before and after a text
Pads == { [before |-> <<" ">>, after |-> <<>>],
          [before |-> <<"\t">>, after |-> <<" ", "\n">>] }

\* text b is text a followed by a space and a UI-noise token
noiseAdded(a, b) == \E w \in NoiseTokens : b = a \o <<" ">> \o w

\* text b is text a with one more space or tab in a run of spaces and tabs
widened(a, b) ==
  \E i \in 1..Len(a) : \E c \in {" ", "\t"} :
    /\ a[i] \in {" ", "\t"}
    /\ b = SubSeq(a, 1, i) \o <<c>> \o SubSeq(a, i + 1, Len(a))

\* text b is text a with white space before it or after it
padded(a, b) ==
  \E m, n \in 0..Len(b) :
    /\ m + n > 0
    /\ m + n + Len(a) = Len(b)
    /\ SubSeq(b, m + 1, m + Len(a)) = a
    /\ \A k \in (1..m) \cup ((Len(b) - n + 1)..Len(b)) : b[k] \in WhiteSpace

RECURSIVE withCRLF(_)
\* the text with every line feed turned into carriage return, line feed
withCRLF(s) ==
  IF s = <<>> THEN <<>>
  ELSE IF Head(s) = "\n" THEN <<"\r", "\n">> \o withCRLF(Tail(s))
  ELSE <<Head(s)>> \o withCRLF(Tail(s))

\* text b is text a with CRLF line endings for its LF line endings
crlfEnded(a, b) == b # a /\ b = withCRLF(a)

\* the texts of the calls: the base texts and their edits
IdTexts ==
  BaseTexts
    \cup {a \o <<" ">> \o w : a \in BaseTexts, w \in NoiseTokens}
    \cup {SubSeq(T_HiThere, 1, 3) \o <<c>> \o SubSeq(T_HiThere, 4, 8) : c \in {" ", "\t"}}
    \cup {p.before \o a \o p.after : a \in {T_Word, T_HiThere, T_Lines}, p \in Pads}
    \cup {withCRLF(T_Lines)}

\* the part sequences of the calls
IdParts ==
  { <<>> } \cup { << [type |-> "text", text |-> t] >> : t \in IdTexts }
    \cup { << [type |-> "quote", text |-> t], [type |-> "text", text |-> T_Word] >> :
             t \in {x \in IdTexts : includesText(x, <<"t", "h", "e", "r", "e">>)} }

IdRoles == {"user", "assistant", "system"}

MaxIndex == 1
MaxIdCalls == 2

InitIds ==
  /\ dom = <<>>
  /\ op = "none"
  /\ input = <<>>
  /\ output = <<>>
  /\ NoFind
  /\ NoParse

\* a caller invokes generateMessageId(role, parts, index)
CallGenerateMessageId ==
  \E role \in IdRoles : \E parts \in IdParts : \E index \in 0..MaxIndex :
    /\ Len(input) < MaxIdCalls
    /\ op' = "generateMessageId"
    /\ input' = Append(input, [role |-> role, parts |-> parts, index |-> index])
    /\ output' = Append(output, generateMessageId(role, parts, index))
    /\ UNCHANGED <<dom, url, cfg, root, found, foundAll, parseVars, startTime>>

NextIds == CallGenerateMessageId

SpecIds == InitIds /\ [][NextIds]_vars

\* the normalized and noise-stripped content of a part sequence
cleanedText(parts) == stripUIText(normalizePartsText(parts))

\* the 32-bit hash of the string hashed for a call
hashOf(call) == hashFrom(hashInputOf(call.role, call.parts, call.index), 1,
                         [hi |-> 0, lo |-> 5381])

\* calls i and j agree in role and index
sameRoleIndex(i, j) ==
  input[i].role = input[j].role /\ input[i].index = input[j].index

sameButText(p, q, rel(_, _)) ==
  /\ Len(p) = Len(q)
  /\ \A k \in 1..Len(p) :
       p[k] = q[k] \/ ([p[k] EXCEPT !.text = q[k].text] = q[k] /\ rel(p[k].text, q[k].text))
  /\ p # q

\* C19: adding a UI-noise token to a text of the parts (" Copy" after
\* "Hello") leaves the id of the same role and index as it was.
C19_NoiseInvariance ==
  \A i, j \in 1..Len(input) :
    (sameRoleIndex(i, j) /\ sameButText(input[i].parts, input[j].parts, noiseAdded))
      => output[i] = output[j]

\* text b is a white-space edit of text a
whitespaceEdit(a, b) ==
  widened(a, b) \/ padded(a, b) \/ crlfEnded(a, b)

digit36(c) ==
  IF \E k \in 1..Len(Base36) : Base36[k] = c
  THEN CHOOSE k \in 1..Len(Base36) : Base36[k] = c ELSE 0

RECURSIVE valueOf36(_, _, _)
\* the number that the base-36 digits of h from position i on add to acc,
\* in two 16-bit halves; hi >= Half when it does not fit 32 bits
valueOf36(h, i, acc) ==
  IF i > Len(h) \/ acc.hi >= Half THEN acc
  ELSE LET low == (acc.lo * 36) + (digit36(h[i]) - 1)
       IN valueOf36(h, i + 1, [hi |-> (acc.hi * 36) + (low \div Half), lo |-> low % Half])

\* C21: every id is "msg_" + h + "_" + index, where h is made of the digits
\* 0-9 and a-z only, is not empty and is the base-36 rendering of the
\* unsigned 32-bit value of the accumulator (seed 5381, acc*33 XOR
\* charCode per character, 32-bit wrap-around) run over the hashed string.
C21_IdFormat ==
  \A i \in 1..Len(input) :
    LET id == output[i]
        index == decimal(input[i].index)
        h == SubSeq(id, 5, Len(id) - Len(index) - 1)
        value == hashOf(input[i])
    IN /\ Len(id) >= Len(index) + 6
       /\ SubSeq(id, 1, 4) = <<"m", "s", "g", "_">>
       /\ SubSeq(id, Len(id) - Len(index), Len(id)) = <<"_">> \o index
       /\ \A k \in 1..Len(h) : digit36(h[k]) # 0
       /\ Len(h) > 1 => h[1] # "0"
       /\ valueOf36(h, 1, [hi |-> 0, lo |-> 0]) = value
       /\ value.hi \in 0..(Half - 1)
       /\ value.lo \in 0..(Half - 1)

\* C21 witness: ids were made for the empty part sequence and for a text
\* whose hash has its highest bit set
C21_Witness ==
  /\ Len(input) = 2
  /\ input[1].parts = <<>>
  /\ input[2].parts # <<>>
  /\ hashOf(input[2]).hi >= Half \div 2
  /\ input[2].index = MaxIndex

(***************************************************************************)
(* Text calls: normalizeWhitespace called on a text and, as                *)
(* normalizePartsText does with the texts that extractTextContent has      *)
(* normalized, on its own result; stripUIText called on a text.            *)
(***************************************************************************)
MaxTextLen == 4
MaxWords == 3

WhitespaceChars == {"a", " ", "\t", "\n", "\r"}

\* the texts given to normalizeWhitespace
WhitespaceTexts == UNION {[1..n -> WhitespaceChars] : n \in 0..MaxTextLen}

\* "Message", "1 / 20", "content", "Copy", "copied", "EDIT", "share",
\* "Continue", "Regenerate", "3/4", "copying"
NoiseWords ==
  { <<"M", "e", "s", "s", "a", "g", "e">>,
    <<"1", " ", "/", " ", "2", "0">>,
    <<"c", "o", "n", "t", "e", "n", "t">>,
    <<"C", "o", "p", "y">>,
    <<"c", "o", "p", "i", "e", "d">>,
    <<"E", "D", "I", "T">>,
    <<"s", "h", "a", "r", "e">>,
    <<"C", "o", "n", "t", "i", "n", "u", "e">>,
    <<"R", "e", "g", "e", "n", "e", "r", "a", "t", "e">>,
    <<"3", "/", "4">>,
    <<"c", "o", "p", "y", "i", "n", "g">> }

\* the texts given to stripUIText: up to MaxWords words with spaces between
NoiseTexts ==
  {join(ws, <<" ">>) : ws \in UNION {[1..n -> NoiseWords] : n \in 0..MaxWords}}

InitText ==
  /\ dom = <<>>
  /\ op = "none"
  /\ input = <<>>
  /\ output = <<>>
  /\ NoFind
  /\ NoParse

\* extractTextContent invokes normalizeWhitespace(clone.textContent)
CallNormalizeWhitespace ==
  \E text \in WhitespaceTexts :
    /\ op = "none"
    /\ op' = "normalizeWhitespace"
    /\ input' = <<text>>
    /\ output' = <<normalizeWhitespace(text)>>
    /\ UNCHANGED <<dom, url, cfg, root, found, foundAll, parseVars, startTime>>

\* normalizePartsText invokes normalizeWhitespace(part.text) on that result
CallNormalizeAgain ==
  /\ op = "normalizeWhitespace"
  /\ Len(input) = 1
  /\ input' = Append(input, output[1])
  /\ output' = Append(output, normalizeWhitespace(output[1]))
  /\ UNCHANGED <<dom, url, op, cfg, root, found, foundAll, parseVars, startTime>>

\* generateMessageId invokes stripUIText(normalizedText)
CallStripUIText ==
  \E text \in NoiseTexts :
    /\ op = "none"
    /\ op' = "stripUIText"
    /\ input' = <<text>>
    /\ output' = <<stripUIText(text)>>
    /\ UNCHANGED <<dom, url, cfg, root, found, foundAll, parseVars, startTime>>

NextText == CallNormalizeWhitespace \/ CallNormalizeAgain \/ CallStripUIText

SpecText == InitText /\ [][NextText]_vars

\* C22: normalizing a normalized text gives that text; a normalized text
\* holds no carriage return, no two spaces or tabs in a row, no tab, and
\* no white space at its start or at its end.
C22_NormalizeIdempotent ==
  op = "normalizeWhitespace" =>
    /\ Len(output) = 2 => output[2] = output[1]
    /\ \A r \in 1..Len(output) :
         LET t == output[r]
         IN /\ \A k \in 1..Len(t) : t[k] \notin {"\r", "\t"}
            /\ \A k \in 1..(Len(t) - 1) : ~(t[k] = " " /\ t[k + 1] = " ")
            /\ t # <<>> => (t[1] \notin WhiteSpace /\ t[Len(t)] \notin WhiteSpace)

\* C22 witness: a text with a carriage return, a run of spaces and tabs
\* and white space at its end was normalized, and its result once more
C22_Witness ==
  /\ op = "normalizeWhitespace"
  /\ Len(output) = 2
  /\ \E k \in 1..Len(input[1]) : input[1][k] = "\r"
  /\ \E k \in 1..(Len(input[1]) - 1) :
       input[1][k] \in {" ", "\t"} /\ input[1][k + 1] \in {" ", "\t"}
  /\ output[1] # <<>>
  /\ output[1] # input[1]

\* the counters "<int> / <int>" that stand in text s, each from the first
\* digit of its first number to the last digit of its second
countersOf(s) ==
  LET isDigit(c) == c \in {Digits[k] : k \in 1..10}
  IN { SubSeq(s, i, j) : <<i, j>> \in
         { x \in (1..Len(s)) \X (1..Len(s)) :
             /\ x[1] < x[2]
             /\ isDigit(s[x[1]]) /\ (x[1] > 1 => ~isDigit(s[x[1] - 1]))
             /\ isDigit(s[x[2]]) /\ (x[2] < Len(s) => ~isDigit(s[x[2] + 1]))
             /\ isCounter(SubSeq(s, x[1], x[2])) } }

\* the noise word w stands in text s as a whole word, in any letter case
hasWord(s, w) ==
  \E i \in 1..Len(s) :
    boundaryAt(s, i) /\ wordAt(s, w, i) /\ boundaryAt(s, i + Len(w))

\* C23: the result of stripUIText holds none of the counters
\* "<int> / <int>" of the text, also of those between other words, and
\* none of the words copy, copied, regenerate, edit, share, continue as a
\* whole word in any letter case.
C23_NoiseRemoved ==
  op = "stripUIText" =>
    /\ \A c \in countersOf(input[1]) : ~includesText(output[1], c)
    /\ \A p \in 1..Len(UI_NOISE_PATTERNS) :
         UI_NOISE_PATTERNS[p] # <<"thumb">> => ~hasWord(output[1], UI_NOISE_PATTERNS[p])

(***************************************************************************)
(* Readiness poll: waitForConversationReady(doc, timeout) called on a page *)
(* that changes while the call sleeps.                                     *)
(***************************************************************************)
\* setTimeout(resolve, 500)
PollInterval == 500

\* how late the timer may fire at most
MaxLate == 200

\* the timeouts passed
Timeouts == {0, 500, 1200}

\* the states of the page: no container, a container without message
\* blocks, a container with one
WaitTrees == Trees({W_main, W_div, W_low}, {B_user, B_short}, 1)

InitWait ==
  /\ dom \in WaitTrees
  /\ op = "none"
  /\ input = <<>>
  /\ output = <<>>
  /\ NoFind
  /\ NoParse

\* waitForConversationReady(doc, timeout) is called: const startTime = Date.now()
WaitBegin ==
  \E timeout \in Timeouts :
    /\ op = "none"
    /\ op' = "waitForConversationReady"
    /\ input' = <<timeout>>
    /\ startTime' = now
    /\ pc' = "waitLoop"
    /\ UNCHANGED <<dom, url, cfg, root, found, foundAll, options, now, container,
                   messageElements, idx, messages, sources, warnings, outcome,
                   previous, calls, output>>

\* faulty variant: the container alone makes the page ready
WaitCheck_containerOnly ==
  /\ pc = "waitLoop"
  /\ \E c \in {findElement(dom, DocumentNode, CONVERSATION_CONTAINER)} :
       IF now - startTime < input[1]
       THEN IF c # NULL
            THEN output' = <<TRUE>> /\ pc' = "waitDone"
            ELSE output' = output /\ pc' = "waitSleep"
       ELSE output' = <<FALSE>> /\ pc' = "waitDone"
  /\ UNCHANGED <<dom, url, findVars, options, now, container, messageElements, idx,
                 messages, sources, warnings, outcome, previous, calls, input, startTime>>

\* one test of the while condition and, when it holds, one check of the
\* page, up to the return or the call of setTimeout
WaitCheck ==
  /\ pc = "waitLoop"
  /\ \E c \in {findElement(dom, DocumentNode, CONVERSATION_CONTAINER)} :
       IF now - startTime < input[1]
       THEN IF c # NULL /\ Len(findElements(dom, c, MESSAGE_BLOCKS)) > 0
            THEN output' = <<TRUE>> /\ pc' = "waitDone"
            ELSE output' = output /\ pc' = "waitSleep"
       ELSE output' = <<FALSE>> /\ pc' = "waitDone"
  /\ UNCHANGED <<dom, url, findVars, options, now, container, messageElements, idx,
                 messages, sources, warnings, outcome, previous, calls, input, startTime>>

\* the timer fires, PollInterval or a little more after it was set
WaitWake ==
  \E late \in {0, MaxLate} :
    /\ pc = "waitSleep"
    /\ now' = now + PollInterval + late
    /\ pc' = "waitLoop"
    /\ UNCHANGED <<dom, url, findVars, options, container, messageElements, idx,
                   messages, sources, warnings, outcome, previous, calls, callVars>>

\* the page changes while the call sleeps
PageChanges ==
  \E tree \in WaitTrees :
    /\ pc = "waitSleep"
    /\ tree # dom
    /\ dom' = tree
    /\ UNCHANGED <<url, findVars, parseVars, callVars>>

NextWait == WaitBegin \/ WaitCheck \/ WaitWake \/ PageChanges

\* the call is made, runs on and its timer fires
SpecWait ==
  /\ InitWait
  /\ [][NextWait]_vars
  /\ WF_vars(WaitBegin)
  /\ WF_vars(WaitCheck)
  /\ WF_vars(WaitWake)

\* the container resolves in the page and a message block resolves in it
ready(d) ==
  /\ findElement(d, DocumentNode, CONVERSATION_CONTAINER) # NULL
  /\ findElements(d, findElement(d, DocumentNode, CONVERSATION_CONTAINER),
                  MESSAGE_BLOCKS) # <<>>

\* what a step of the poll may do
pollStep ==
  /\ (pc = "waitLoop" /\ now - startTime < input[1] /\ ready(dom))
       => (pc' = "waitDone" /\ output' = <<TRUE>>)
  /\ (pc = "waitLoop" /\ now - startTime < input[1] /\ ~ready(dom))
       => (pc' = "waitSleep" /\ output' = <<>>)
  /\ (pc = "waitLoop" /\ now - startTime >= input[1])
       => (pc' = "waitDone" /\ output' = <<FALSE>>)
  /\ (pc = "waitSleep" /\ now' # now)
       => (now' >= now + PollInterval /\ pc' = "waitLoop" /\ dom' = dom)
  /\ (pc = "waitDone") => (pc' = "waitDone")
  /\ (pc # "waitSleep") => (dom' = dom)
  /\ UNCHANGED <<messages, warnings, outcome, container, messageElements>>

\* C24: a check made while the elapsed time is below the timeout returns
\* true at once when the page is ready and otherwise sleeps; a sleep lasts
\* the 500-unit interval and changes nothing else; the call returns false
\* when the elapsed time has reached the timeout, returns true only from a
\* check that found the page ready, builds no message, warning or
\* document, and always returns.
C24_ReadinessPoll ==
  /\ [][pollStep]_vars
  /\ <>(pc = "waitDone" /\ Len(output) = 1)

\* C24 witness: the call slept, the page became ready and the next check
\* returned true
C24_Witness ==
  /\ pc = "waitDone"
  /\ output = <<TRUE>>
  /\ now > startTime
  /\ ready(dom)

countOf(q, test(_)) == Cardinality({k \in 1..Len(q) : test(q[k])})

\* C26: in the result of a call that returned, every enumerated element i
\* has either one message of index i or one warning "Message i: ...",
\* never both and never none; the other warnings are the one "No message
\* blocks found", present exactly when no element was enumerated.
C26_OneOutcomePerElement ==
  (pc = "done" /\ outcome.kind = "return") =>
    LET ws == outcome.warnings
        ms == outcome.document.messages
        n == Len(messageElements)
        forElement(w) == w.prefix = "Message"
        empty(w) == w = Warning("No message blocks found")
    IN /\ \A i \in 0..(n - 1) :
            LET hasIndex(x) == x.index = i
            IN countOf(ms, hasIndex) + countOf(ws, hasIndex) = 1
       /\ \A k \in 1..Len(ws) : forElement(ws[k]) \/ empty(ws[k])
       /\ \A k \in 1..Len(ws) : forElement(ws[k]) => ws[k].index \in 0..(n - 1)
       /\ Len(ms) + countOf(ws, forElement) = n
       /\ countOf(ws, empty) = IF n = 0 THEN 1 ELSE 0

\* C26 witness: a call returned a message for one element and a warning for
\* another
C26_Witness ==
  /\ pc = "done"
  /\ outcome.kind = "return"
  /\ Len(outcome.document.messages) >= 1
  /\ \E k \in 1..Len(outcome.warnings) : outcome.warnings[k].prefix = "Message"

\* C27: the ids of the messages of a returned document are pairwise
\* distinct, also when two messages have the same role and content.
C27_UniqueIds ==
  (pc = "done" /\ outcome.kind = "return") =>
    LET ms == outcome.document.messages
    IN \A i, j \in 1..Len(ms) : i # j => ms[i].id # ms[j].id

\* C27 witness: a document with two messages of the same role and content
C27_Witness ==
  /\ pc = "done"
  /\ outcome.kind = "return"
  /\ \E i, j \in 1..Len(outcome.document.messages) :
       /\ i # j
       /\ outcome.document.messages[i].role = outcome.document.messages[j].role
       /\ outcome.document.messages[i].parts = outcome.document.messages[j].parts
       /\ outcome.document.messages[i].id # outcome.document.messages[j].id

\* C28: extractContentParts returns no part of type unknown; when no
\* heading, quote, list or code part was found and the remaining text is
\* empty, the text of the element without its UI controls is empty too and
\* the result is the empty sequence.
C28_NoUnknownPart ==
  op = "extractContentParts" =>
    /\ \A i \in 1..Len(output[1]) : output[1][i].type # "unknown"
    /\ (~structuredFound(dom, input[1]) /\ remainingTextOf(dom, input[1]) = <<>>)
         => (extractTextContent(dom, input[1]) = <<>> /\ output[1] = <<>>)

\* C28 witness: a block that holds a button and nothing else gave no part
C28_Witness ==
  /\ op = "extractContentParts"
  /\ ~structuredFound(dom, input[1])
  /\ remainingTextOf(dom, input[1]) = <<>>
  /\ textContent(dom, input[1]) # <<>>
  /\ output[1] = <<>>

\* the code blocks of an element: its pre elements and the code elements
\* with a language class that stand in no pre, with some text
codeBlocksOf(d, element) ==
  {n \in descendants(d, element) :
     /\ trim(textContent(d, n)) # <<>>
     /\ \/ d[n].tag = "pre"
        \/ /\ d[n].tag = "code"
           /\ \E k \in 1..Len(d[n].cls) : includes(d[n].cls[k], "language-")
           /\ ~\E a \in descendants(d, element) : d[a].tag = "pre" /\ isDescendant(d, n, a)}

\* C29: the result of extractContentParts has one code part for each code
\* block of the element, and no two code parts for a code element nested
\* in a pre.
C29_OneCodePartPerBlock ==
  op = "extractContentParts" =>
    Cardinality({i \in 1..Len(output[1]) : output[1][i].type = "code"})
      = Cardinality(codeBlocksOf(dom, input[1]))

\* a text made of placeholder markers "[TAG]" and white space only
RECURSIVE onlyMarkers(_)
onlyMarkers(t) ==
  IF t = <<>> THEN TRUE
  ELSE IF Head(t) \in WhiteSpace THEN onlyMarkers(Tail(t))
  ELSE IF Head(t) = "["
       THEN \E k \in 2..Len(t) :
              /\ t[k] = "]"
              /\ \A m \in 2..(k - 1) : t[m] \in {UpperCase[u] : u \in 1..26}
                                             \cup {Digits[u] : u \in 1..10}
              /\ k > 2
              /\ onlyMarkers(SubSeq(t, k + 1, Len(t)))
       ELSE FALSE

\* the element has text outside its headings, quotes, lists, code blocks,
\* images and UI controls
hasProse(d, element) ==
  \E n \in descendants(d, element) \cup {element} :
    /\ trim(d[n].text) # <<>>
    /\ n \notin removeUi(cloneNode(d, element), 1).removed
    /\ ~\E a \in removeUi(cloneNode(d, element), 1).removed : isDescendant(d, n, a)
    /\ ~matches(d, n, StructuralSelector)
    /\ ~\E a \in descendants(d, element) :
          matches(d, a, StructuralSelector) /\ isDescendant(d, n, a)

\* C30: no text part consists of placeholder markers only, and a block
\* without prose outside its structured elements gives no text part.
C30_NoPlaceholderText ==
  op = "extractContentParts" =>
    /\ \A i \in 1..Len(output[1]) :
         output[1][i].type = "text" => ~onlyMarkers(output[1][i].text)
    /\ ~hasProse(dom, input[1])
         => \A i \in 1..Len(output[1]) : output[1][i].type # "text"

====
